---- MODULE Spec2Model ----
(***************************************************************************)
(* Whisper Flight AI: the conversation state machine (StateManager), the   *)
(* continuous-listening thread of AudioProcessor, the destination-tracking *)
(* thread of NavigationManager, the provider fallback of AIManager and the *)
(* event loop of main.py, as one state machine.                            *)
(*                                                                         *)
(* Python strings are TLA+ strings; None is the empty tuple and a present  *)
(* value v is <<v>>, so that "x is None" and "not x" can be evaluated.     *)
(***************************************************************************)
EXTENDS Integers, Sequences, FiniteSets, TLC

(***************************************************************************)
(* Bounds of the model.                                                    *)
(***************************************************************************)
\* [AI] context_length as read from the configuration file
ConfigContextLength == 2
\* utterances waiting in audio_queue
MaxQueue == 1
\* listen workers that outlived a timed-out join
MaxOrphans == 1
\* commands the pilot gives in one session
MaxCommands == 6

(***************************************************************************)
(* str methods used by the code.                                           *)
(***************************************************************************)
None == << >>
Some(v) == << v >>

\* str.lower of one character
LowerChar(c) ==
  LET UpperAlphabet == "ABCDEFGHIJKLMNOPQRSTUVWXYZ"
      LowerAlphabet == "abcdefghijklmnopqrstuvwxyz"
      at == {i \in 1..Len(UpperAlphabet) : SubSeq(UpperAlphabet, i, i) = c}
  IN  IF at = {} THEN c ELSE LET i == CHOOSE j \in at : TRUE IN SubSeq(LowerAlphabet, i, i)

RECURSIVE lower(_)
lower(s) ==
  IF Len(s) = 0 THEN "" ELSE LowerChar(SubSeq(s, 1, 1)) \o lower(SubSeq(s, 2, Len(s)))

IsSpace(c) == c \in {" ", "\t", "\n", "\r"}

RECURSIVE lstrip(_)
lstrip(s) ==
  IF Len(s) > 0 /\ IsSpace(SubSeq(s, 1, 1)) THEN lstrip(SubSeq(s, 2, Len(s))) ELSE s

RECURSIVE rstrip(_)
rstrip(s) ==
  IF Len(s) > 0 /\ IsSpace(SubSeq(s, Len(s), Len(s)))
  THEN rstrip(SubSeq(s, 1, Len(s) - 1)) ELSE s

strip(s) == rstrip(lstrip(s))

\* s[i-1:j] of Python: the slice is cut to the string
Slice(s, i, j) ==
  LET lo == IF i < 1 THEN 1 ELSE i
      hi == IF j > Len(s) THEN Len(s) ELSE j
  IN  IF lo > hi THEN "" ELSE SubSeq(s, lo, hi)

startswith(s, prefix) == Len(s) >= Len(prefix) /\ SubSeq(s, 1, Len(prefix)) = prefix

\* Python's "k in s" for strings
contains(s, k) == \E i \in 1..(Len(s) - Len(k) + 1) : SubSeq(s, i, i + Len(k) - 1) = k

\* any(p(x) for x in xs) over a list of strings
AnyStartsWith(s, xs) == \E i \in 1..Len(xs) : startswith(s, xs[i])
AnyContains(s, xs) == \E i \in 1..Len(xs) : contains(s, xs[i])

(***************************************************************************)
(* AppState and the phrase tables of StateManager.                         *)
(***************************************************************************)
AppState ==
  {"STANDBY", "ACTIVE", "LISTENING", "PROCESSING", "RESPONDING", "WAITING",
   "NAVIGATION", "TOURING", "ERROR"}

junk_exact ==
  <<".", ",", "?", "!", "-", "you", "the", "a", "uh", "um", "no.", "nope.",
    "great.", "now", "now...">>

junk_phrases ==
  <<"more questions", "checking your location", "okay, standing by",
    "okay standing by", "okay, what is your question", "okay what is your question",
    "whisper ai ready", "understood. safe flying", "understood safe flying",
    "understood, let me know", "let me know if you need anything else",
    "feel free to ask anything", "feel free to ask anytime", "feel free to ask",
    "safe flying", "i'm going to start with the first one", "you're hovering near",
    "you're soaring above", "in the 08036 zip code area", "from this vantage point",
    "could you please clarify", "copy that", "are you referring to",
    "it seems like you might be", "alright, take care">>

negative_responses == <<"no", "nope", "stop", "that's all", "nothing else">>

wake_variations == <<"sky tour", "skytour", "scatour">>

fuzzy ==
  <<"sky to", "sky tore", "sky tor", "skator", "skater", "sky door", "sky t", "sky2">>

reactivate ==
  <<"question", "i have a question", "where am i", "are you there", "hello whisper">>

navigation_keywords ==
  <<"take me to", "fly to", "go to", "head to", "navigate to", "how do i get to",
    "which way to", "direction to", "heading to">>

tour_keywords ==
  <<"give me a tour", "show me around", "tell me about this area",
    "what's interesting here", "points of interest", "what can i see",
    "what's below", "what's around here">>

\* len(text.split()): the number of maximal runs of non-space characters
RECURSIVE WordCount(_)
WordCount(s) ==
  LET t == lstrip(s) IN
  IF Len(t) = 0 THEN 0
  ELSE LET ends == {i \in 1..Len(t) : IsSpace(SubSeq(t, i, i))}
           cut  == IF ends = {} THEN Len(t) + 1
                   ELSE CHOOSE i \in ends : \A j \in ends : i <= j
       IN  1 + WordCount(SubSeq(t, cut, Len(t)))

_is_navigation_query(text) ==
  \E i \in 1..Len(navigation_keywords) : contains(text, navigation_keywords[i] \o " ")

_is_tour_request(text) == AnyContains(text, tour_keywords)

\* a junk filter that compares with junk_exact only, without the length and
\* the phrase test; C11 does not hold of it
is_junk_exact_only(command) ==
  \E i \in 1..Len(junk_exact) : junk_exact[i] = lower(strip(command))

\* the junk filter at the head of handle_command
is_junk(command) ==
  LET command_strip   == strip(command)
      cmd_lower_strip == lower(command_strip)
  IN  \/ Len(command_strip) < 3
      \/ \E i \in 1..Len(junk_exact) : junk_exact[i] = cmd_lower_strip
      \/ AnyStartsWith(cmd_lower_strip, junk_phrases)


\* the routing chain of handle_command in ACTIVE / WAITING: the first branch
\* whose condition holds
\* a routing that tests the tour phrases before everything else; C18 does
\* not hold of it
Classify_tour_first(cmd_lower, current_st) ==
  IF _is_tour_request(cmd_lower) THEN "tour"
  ELSE IF current_st = "WAITING" /\ AnyStartsWith(cmd_lower, negative_responses)
    THEN "negative"
  ELSE IF contains(cmd_lower, "deactivate") \/ contains(cmd_lower, "shut down")
    THEN "deactivate"
  ELSE IF contains(cmd_lower, "reset") THEN "reset"
  ELSE IF contains(cmd_lower, "switch to") THEN "switch"
  ELSE IF contains(cmd_lower, "where am i") THEN "where_am_i"
  ELSE IF _is_navigation_query(cmd_lower) THEN "navigation"
  ELSE IF contains(cmd_lower, "tell me when") THEN "tell_me_when"
  ELSE IF cmd_lower = "question" THEN "question"
  ELSE "general"

Classify(cmd_lower, current_st) ==
  IF current_st = "WAITING" /\ AnyStartsWith(cmd_lower, negative_responses)
    THEN "negative"
  ELSE IF contains(cmd_lower, "deactivate") \/ contains(cmd_lower, "shut down")
    THEN "deactivate"
  ELSE IF contains(cmd_lower, "reset") THEN "reset"
  ELSE IF contains(cmd_lower, "switch to") THEN "switch"
  ELSE IF contains(cmd_lower, "where am i") THEN "where_am_i"
  ELSE IF _is_navigation_query(cmd_lower) THEN "navigation"
  ELSE IF _is_tour_request(cmd_lower) THEN "tour"
  ELSE IF contains(cmd_lower, "tell me when") THEN "tell_me_when"
  ELSE IF cmd_lower = "question" THEN "question"
  ELSE "general"

\* the user turn is recorded unless the command is "question" or starts with
\* a negative response
AddsUserTurn(cmd_lower) ==
  cmd_lower # "question" /\ ~AnyStartsWith(cmd_lower, negative_responses)

\* a handle_wake_word that takes every text for a reactivation phrase; C12
\* does not hold of it
WakeMatchAnyText(wake_lower) == "reactivate"

\* the test of handle_wake_word that wake_lower passes first
WakeMatch(wake_lower) ==
  IF \E i \in 1..Len(wake_variations) : wake_variations[i] = wake_lower THEN "exact"
  ELSE IF AnyContains(wake_lower, fuzzy) /\ WordCount(wake_lower) <= 3 THEN "fuzzy"
  ELSE IF AnyContains(wake_lower, reactivate)
    THEN IF contains(wake_lower, "where am i") THEN "reactivate_where_am_i"
         ELSE "reactivate"
  ELSE "none"

\* the states in which handle_command routes a command
AcceptingStates == {"ACTIVE", "WAITING"}

\* a handle_command that would route a command in PROCESSING as well; C2 does
\* not hold of it
IsAcceptingOrProcessing(current_st) == current_st \in AcceptingStates \cup {"PROCESSING"}

IsAccepting(current_st) == current_st \in AcceptingStates

(***************************************************************************)
(* AIProvider / AIManager.                                                 *)
(***************************************************************************)
providers == <<"openai", "grok">>
default_provider == "openai"

get_name(provider) == IF provider = "grok" THEN "Grok" ELSE "OpenAI"

\* what the HTTP exchange of one provider ends with
ProviderOutcomes ==
  {"ok", "no_key", "timeout", "connection", "http_401", "http_429", "http_other",
   "unexpected", "other_exception"}

Reply == "You are over the bay."

_handle_api_error(provider, outcome) ==
  LET name == get_name(provider) IN
  CASE outcome = "timeout" ->
         "I couldn't connect to " \o name \o " in time. Please try again."
    [] outcome = "connection" ->
         "I'm having trouble connecting to " \o name
           \o ". Please check your internet connection."
    [] outcome = "http_401" ->
         "Authentication failed for " \o name \o ". Please check your API key."
    [] outcome = "http_429" ->
         name \o " API rate limit reached. Please wait or check your plan."
    [] outcome = "http_other" ->
         "There was a problem with the " \o name
           \o " service (HTTP 500). Please try again later."
    [] OTHER ->
         "Something went wrong while communicating with " \o name
           \o ". Please try again."

provider_generate_response(provider, outcome) ==
  CASE outcome = "no_key" ->
         get_name(provider) \o " API key is missing. Please check your configuration."
    [] outcome = "unexpected" ->
         "Received an unexpected response from " \o get_name(provider) \o "."
    [] outcome = "ok" -> Reply
    [] OTHER -> _handle_api_error(provider, outcome)

\* the list local to AIManager.generate_response
error_indicators ==
  <<"API key is missing", "I couldn't connect", "I'm having trouble connecting",
    "There was a problem with", "Something went wrong", "Authentication failed",
    "API rate limit reached", "Received an unexpected response">>

\* outcome: provider name -> the outcome of its HTTP exchange
generate_response(provider, outcome) ==
  IF Len(providers) = 0 \/ default_provider = ""
  THEN "No AI providers are available or configured correctly. Please check your configuration and API keys."
  ELSE
    LET known(n) == \E i \in 1..Len(providers) : providers[i] = n
        wanted == IF provider = "" THEN default_provider ELSE provider
        provider_name_to_use == IF known(wanted) THEN wanted ELSE default_provider
    IN
    IF ~known(provider_name_to_use)
    THEN "The configured default AI provider is not available."
    ELSE
      LET result == provider_generate_response(provider_name_to_use,
                                               outcome[provider_name_to_use])
          is_error == AnyStartsWith(result, error_indicators)
          others == {i \in 1..Len(providers) : providers[i] # provider_name_to_use}
      IN
      IF is_error /\ Len(providers) > 1 /\ others # {}
      THEN LET fallback_name == providers[CHOOSE i \in others : \A j \in others : i <= j]
           IN  provider_generate_response(fallback_name, outcome[fallback_name])
      ELSE result

\* the providers generate_response calls, in the order of the calls
generate_response_calls(provider, outcome) ==
  IF Len(providers) = 0 \/ default_provider = ""
  THEN << >>
  ELSE
    LET known(n) == \E i \in 1..Len(providers) : providers[i] = n
        wanted == IF provider = "" THEN default_provider ELSE provider
        provider_name_to_use == IF known(wanted) THEN wanted ELSE default_provider
    IN
    IF ~known(provider_name_to_use)
    THEN << >>
    ELSE
      LET result == provider_generate_response(provider_name_to_use,
                                               outcome[provider_name_to_use])
          is_error == AnyStartsWith(result, error_indicators)
          others == {i \in 1..Len(providers) : providers[i] # provider_name_to_use}
      IN
      IF is_error /\ Len(providers) > 1 /\ others # {}
      THEN <<provider_name_to_use,
             providers[CHOOSE i \in others : \A j \in others : i <= j]>>
      ELSE <<provider_name_to_use>>

\* what generate_response returns when AIManager.__init__ could create no
\* provider (self.providers is empty)
no_providers_response ==
  "No AI providers are available or configured correctly. Please check your configuration and API keys."

\* getattr(ai_manager, 'error_indicators', []): AIManager sets no such
\* attribute (the list above is a local of generate_response), so the
\* handlers of StateManager get the default
ai_manager_error_indicators == << >>


(***************************************************************************)
(* NavigationManager: destination resolution.                              *)
(***************************************************************************)
\* name, latitude, longitude and tags of _load_poi_database (the coordinates
\* are kept as the decimal text of the source)
poi_database ==
  << [name |-> "Empire State Building", latitude |-> "40.7484", longitude |-> "-73.9857",
      tags |-> <<"skyscraper", "landmark", "observation deck">>],
     [name |-> "Statue of Liberty", latitude |-> "40.6892", longitude |-> "-74.0445",
      tags |-> <<"landmark", "historic", "harbor">>],
     [name |-> "Golden Gate Bridge", latitude |-> "37.8199", longitude |-> "-122.4783",
      tags |-> <<"landmark", "engineering", "bay">>],
     [name |-> "Grand Canyon", latitude |-> "36.0544", longitude |-> "-112.2583",
      tags |-> <<"national park", "geological", "river">>],
     [name |-> "The Alamo", latitude |-> "29.4252", longitude |-> "-98.4861",
      tags |-> <<"mission", "battle site", "texas">>],
     [name |-> "San Antonio River Walk", latitude |-> "29.4238", longitude |-> "-98.4895",
      tags |-> <<"river", "dining", "entertainment">>],
     [name |-> "Independence Hall", latitude |-> "39.9495", longitude |-> "-75.1497",
      tags |-> <<"revolution", "founding fathers", "liberty bell">>],
     [name |-> "Atlantic City Boardwalk", latitude |-> "39.3559", longitude |-> "-74.4304",
      tags |-> <<"beach", "casinos", "resorts">>],
     [name |-> "Golden Nugget Casino", latitude |-> "39.3801", longitude |-> "-74.4282",
      tags |-> <<"gambling", "marina", "resort">>],
     [name |-> "Philadelphia Museum of Art", latitude |-> "39.9656", longitude |-> "-75.1810",
      tags |-> <<"art", "rocky steps", "architecture">>] >>

Min(S) == CHOOSE x \in S : \A y \in S : x <= y

\* the first position >= i of s that holds no whitespace (Len(s) + 1 if none)
SkipSpaces(s, i) ==
  Min({j \in i..(Len(s) + 1) : j = Len(s) + 1 \/ ~IsSpace(SubSeq(s, j, j))})

IsGroupChar(s, i) == i >= 1 /\ i <= Len(s) /\ SubSeq(s, i, i) \notin {".", ",", "?", "!"}

\* the longest run of [^.,?!] from position i
GroupFrom(s, i) ==
  Slice(s, i, Min({j \in i..(Len(s) + 1) : ~IsGroupChar(s, j)}) - 1)

destination_keywords == <<"to", "toward", "for", "at">>

\* The regular expression of find_destination_from_query,
\*   (?:to|toward|for|at)\s+(?:the\s+)?([^.,?!]+)   with re.IGNORECASE,
\* anchored at one position; lq is the query lower-cased.  \s+ and the
\* optional "the" are greedy and give back what the group needs.

\* (?:the\s+)? matches at p
HasThe(lq, p) ==
  /\ Slice(lq, p, p + 2) = "the"
  /\ p + 3 <= Len(lq)
  /\ IsSpace(SubSeq(lq, p + 3, p + 3))

\* group(1), with \s+ ending before p, and before p2 when "the" is taken
MatchGroup(query, after, p, has_the, p2) ==
  IF has_the /\ IsGroupChar(query, p2) THEN Some(GroupFrom(query, p2))
  ELSE IF has_the /\ p2 - 1 > p + 3 THEN Some(GroupFrom(query, p2 - 1))
  ELSE IF IsGroupChar(query, p) THEN Some(GroupFrom(query, p))
  ELSE IF p - 1 > after THEN Some(GroupFrom(query, p - 1))
  ELSE None

MatchThe(query, lq, after, p, has_the) ==
  MatchGroup(query, after, p, has_the, IF has_the THEN SkipSpaces(lq, p + 3) ELSE p)

MatchKeyword(query, lq, i, after, kw) ==
  IF ~(Slice(lq, i, after - 1) = kw /\ after <= Len(lq) /\ IsSpace(SubSeq(lq, after, after)))
  THEN None
  ELSE MatchThe(query, lq, after, SkipSpaces(lq, after), HasThe(lq, SkipSpaces(lq, after)))

\* group(1) of the match at position i with alternative k, None if none
MatchAt(query, lq, i, k) ==
  MatchKeyword(query, lq, i, i + Len(destination_keywords[k]), destination_keywords[k])

\* the match at position i: the first alternative that matches
MatchFirst(query, lq, i) ==
  MatchAt(query, lq, i,
          Min({m \in 1..Len(destination_keywords) : MatchAt(query, lq, i, m) # None}))

MatchLeftmost(query, lq, hits) ==
  IF hits = {} THEN None ELSE MatchFirst(query, lq, Min(hits))

RegexSearchIn(query, lq) ==
  MatchLeftmost(query, lq,
                {i \in 1..Len(query) :
                   \E k \in 1..Len(destination_keywords) : MatchAt(query, lq, i, k) # None})

\* re.search: the leftmost position that matches, alternatives in order
RegexSearch(query) == RegexSearchIn(query, lower(query))

\* re.sub(r'\s+', ' ', s)
RECURSIVE CollapseSpaces(_)
CollapseSpaces(s) ==
  IF Len(s) = 0 THEN ""
  ELSE IF IsSpace(SubSeq(s, 1, 1))
       THEN " " \o CollapseSpaces(Slice(s, SkipSpaces(s, 1), Len(s)))
       ELSE SubSeq(s, 1, 1) \o CollapseSpaces(SubSeq(s, 2, Len(s)))

PoiMatches(destination, poi) ==
  \/ contains(lower(poi.name), destination)
  \/ \E t \in 1..Len(poi.tags) : contains(destination, poi.tags[t])

PoiDestination(poi) ==
  Some([destination_name |-> poi.name, latitude |-> poi.latitude,
        longitude |-> poi.longitude])

\* found: the entries of the POI database that match, in order
PickDestination(destination, found, geocoded) ==
  IF found # {} THEN PoiDestination(poi_database[Min(found)])
  ELSE IF geocoded # None
  THEN Some([destination_name |-> IF geocoded[1].name = "" THEN destination
                                  ELSE geocoded[1].name,
             latitude |-> geocoded[1].latitude, longitude |-> geocoded[1].longitude])
  ELSE None

ResolveDestination(destination, geocoded) ==
  PickDestination(destination,
                  {n \in 1..Len(poi_database) : PoiMatches(destination, poi_database[n])},
                  geocoded)

DestinationOfMatch(match, geocoded) ==
  IF match = None THEN None
  ELSE ResolveDestination(CollapseSpaces(lower(strip(match[1]))), geocoded)

\* geocoded: what geo_utils.geocode answers for the destination, None or
\* Some([name, latitude, longitude]).  The result is None or
\* Some([destination_name, latitude, longitude]).
find_destination_from_query(query, geocoded) ==
  DestinationOfMatch(RegexSearch(query), geocoded)

DirectionTo(dest, heading_ok) ==
  IF dest = None \/ dest[1].destination_name = "" THEN None
  ELSE IF ~heading_ok THEN None
  ELSE dest

\* flight_data: "none" (no telemetry) or "ok"; heading_ok:
\* calculate_heading_distance gave a result
get_direction_to_destination(query, flight_data, geocoded, heading_ok) ==
  IF flight_data # "ok" THEN None
  ELSE DirectionTo(find_destination_from_query(query, geocoded), heading_ok)

format_navigation_response(direction_info) ==
  IF direction_info = None
  THEN "I couldn't find that destination. Could you try a more specific location?"
  ELSE "Head for " \o direction_info[1].destination_name \o ". "


(***************************************************************************)
(* The state.                                                              *)
(***************************************************************************)
VARIABLES
  \* StateManager
  current_state,        \* AppState
  previous_state,       \* None or Some(AppState)
  conversation_context, \* deque(maxlen = context_length) of [role, content]
  last_destination,     \* None or Some(name)
  last_dest_lat,        \* None or Some(latitude)
  last_dest_lon,        \* None or Some(longitude)
  navigation_active,    \* BOOLEAN
  active_api,           \* provider name
  state_lock,           \* 0, or the tracking thread that is inside on_arrival
  \* AudioProcessor
  is_listening,         \* BOOLEAN
  listen_thread,        \* "None", "alive" or "dead": the thread self.listen_thread names
  listen_orphans,       \* live _listen_worker threads no field names any more
  audio_queue,          \* the utterances put and not yet taken
  \* NavigationManager
  tracking_enabled,     \* BOOLEAN
  tracking_thread,      \* 0 (None) or the thread self.tracking_thread names
  destination_name,     \* None or Some(name)
  tracking_threads,     \* thread -> where it is in _tracking_loop
  \* threads of control
  main,                 \* the event loop: where it is inside handle_command
  workers,              \* the command worker threads
  \* observation
  ev,                   \* the call that ended with the last step, and its result
  faults,               \* what may go wrong in the run: a subset of Faults
  issued                \* commands the pilot has given so far (voice and keys)

smVars    == <<current_state, previous_state, conversation_context, last_destination,
               last_dest_lat, last_dest_lon, navigation_active, active_api, state_lock>>
audioVars == <<is_listening, listen_thread, listen_orphans>>
navVars   == <<tracking_enabled, tracking_thread, destination_name, tracking_threads>>
vars      == <<smVars, audioVars, audio_queue, navVars, main, workers, ev, faults, issued>>

\* threads NavigationManager can have alive at once
MaxTrackingThreads == 2
\* command worker threads that can be alive at once
MaxWorkers == 2
\* callbacks registered with register_state_change_callback
MaxCallbacks == 2

TIDs == 1..MaxTrackingThreads
WIDs == 1..MaxWorkers

\* StateManager.__init__: context_length <= 1 is forced to 2
context_length == IF ConfigContextLength <= 1 THEN 2 ELSE ConfigContextLength

(***************************************************************************)
(* The inputs of the environment.                                          *)
(***************************************************************************)
\* what the microphone can hear (STT output is lower-cased and stripped)
Utterances ==
  {"sky tour", "no", "stop", "that's all", "deactivate", "where am i", "give me a tour",
   "take me to the golden gate bridge", "tell me when we arrive"}

\* keyboard_mapping / joystick_mapping of main.py
KeyCommands == {"sky tour", "where am i", "question", "deactivate"}

FlightDataCases == {"none", "ok"}

\* what the two providers answer in the runs explored
OutcomeMaps == [{providers[i] : i \in 1..Len(providers)} -> {"ok", "http_401"}]
OkMap == [n \in {providers[i] : i \in 1..Len(providers)} |-> "ok"]

\* geo_utils.geocode of a destination that is no point of interest
GeocodeResults ==
  {None, Some([name |-> "Paris, France", latitude |-> "48.8566", longitude |-> "2.3522"])}

\* the commands that can be in audio_queue while the program runs
Commands == Utterances \cup KeyCommands

\* Arguments of a single call of handle_command: texts of the junk filter,
\* wake and reactivation phrases in several spellings, and commands that
\* satisfy more than one test of the routing.
CallInputs ==
  {"", " ", "a", "no", ".", "you", "No.", "now...", "okay, standing by.",
   "more questions?", " Safe flying",
   "sky tour", " Sky Tour ", "skytour", "sky to", "question", "hello whisper",
   "where am i", "hello", "what time is it",
   "nope", "stop", "that's all", "nothing else", "stop and deactivate",
   "deactivate", "shut down", "deactivate and reset", "reset",
   "reset and switch to grok", "switch to openai", "switch to claude",
   "switch to grok, where am i", "where am i, take me to paris",
   "take me to the golden gate bridge and give me a tour",
   "give me a tour and tell me when we arrive", "tell me when we arrive"}

\* The string functions of the handlers, tabulated over the texts
\* handle_command is given.
Texts == Commands \cup CallInputs

junk_of == [command \in Texts |-> is_junk(command)]

route_of ==
  [command \in Texts, current_st \in AppState |->
     Classify(lower(strip(command)), current_st)]

user_turn_of == [command \in Texts |-> AddsUserTurn(lower(strip(command)))]

wake_of == [wake_word \in Texts |-> WakeMatch(lower(strip(wake_word)))]

direction_of ==
  [query \in Commands, flight_data \in FlightDataCases, geocoded \in GeocodeResults,
   heading_ok \in BOOLEAN |->
     get_direction_to_destination(query, flight_data, geocoded, heading_ok)]

\* "raise": collaborator calls (speak, the simulator, the AI provider) may raise
Faults == {"raise"}

\* a collaborator call raises: nowhere, inside the try body, or inside the
\* try body and again in the except clause
FaultChoices == IF "raise" \in faults THEN {"none", "try", "except"} ELSE {"none"}
SyncFaultChoices == IF "raise" \in faults THEN {"none", "raise"} ELSE {"none"}

(***************************************************************************)
(* StateManager: change_state and the conversation buffer.                 *)
(***************************************************************************)
SM == [current_state |-> current_state, previous_state |-> previous_state]

\* a change_state without the test of line 55; C13 does not hold of it
change_state_unguarded(sm, new_state) ==
  [current_state |-> new_state, previous_state |-> Some(sm.current_state)]

change_state(sm, new_state) ==
  IF new_state = sm.current_state THEN sm
  ELSE [current_state |-> new_state, previous_state |-> Some(sm.current_state)]

SetSM(sm) == current_state' = sm.current_state /\ previous_state' = sm.previous_state

\* what change_state does besides the two assignments: state_change_time is
\* set, the transition is logged, and each of the callbacks registered
\* callbacks is invoked
change_state_effects(sm, new_state, callbacks) ==
  IF new_state = sm.current_state
  THEN [time_set |-> FALSE, logged |-> FALSE, invoked |-> 0]
  ELSE [time_set |-> TRUE, logged |-> TRUE, invoked |-> callbacks]

\* change_state with its callbacks.  A callback is a record: does says
\* whether it returns, raises, or calls change_state(new_state) itself.  run
\* holds the two fields of the state manager, log (the calls of callbacks
\* made, with the arguments passed: self.previous_state, self.current_state
\* and reason, read when the call is made), applied (the transitions
\* applied) and raised (an exception left change_state).
RECURSIVE change_state_with_callbacks(_, _, _, _)
RECURSIVE notify_callbacks(_, _, _, _)
RECURSIVE notify_callbacks_unprotected(_, _, _, _)

\* the loop of lines 67-71 without its try / except; C23 does not hold of it
notify_callbacks_unprotected(run, reason, callbacks, i) ==
  IF i > Len(callbacks) \/ run.raised THEN run
  ELSE LET called == [run EXCEPT !.log = Append(@,
                        [callback |-> i, previous_state |-> run.sm.previous_state,
                         new_state |-> run.sm.current_state, reason |-> reason])]
       IN  notify_callbacks_unprotected(
             IF callbacks[i].does = "change_state"
             THEN change_state_with_callbacks(called, callbacks[i].new_state, "callback",
                                              callbacks)
             ELSE IF callbacks[i].does = "raise" THEN [called EXCEPT !.raised = TRUE]
             ELSE called,
             reason, callbacks, i + 1)

\* for callback in self.state_change_callbacks, from the i-th on: an
\* exception of the callback is logged and the loop goes on
notify_callbacks(run, reason, callbacks, i) ==
  IF i > Len(callbacks) THEN run
  ELSE LET called == [run EXCEPT !.log = Append(@,
                        [callback |-> i, previous_state |-> run.sm.previous_state,
                         new_state |-> run.sm.current_state, reason |-> reason])]
       IN  notify_callbacks(
             IF callbacks[i].does = "change_state"
             THEN change_state_with_callbacks(called, callbacks[i].new_state, "callback",
                                              callbacks)
             ELSE called,
             reason, callbacks, i + 1)

\* state_lock is reentrant: a callback that calls change_state enters it
change_state_with_callbacks(run, new_state, reason, callbacks) ==
  IF new_state = run.sm.current_state THEN run
  ELSE notify_callbacks(
         [run EXCEPT !.sm = change_state(run.sm, new_state),
                     !.applied = Append(@, [previous_state |-> Some(run.sm.current_state),
                                            new_state |-> new_state, reason |-> reason])],
         reason, callbacks, 1)

\* a buffer without maxlen; C15 does not hold of it
add_to_conversation_unbounded(ctx, role, content) ==
  Append(ctx, [role |-> role, content |-> content])

add_to_conversation(ctx, role, content) ==
  IF role \notin {"user", "assistant", "system"} \/ content = "" THEN ctx
  ELSE LET message == [role |-> role, content |-> content]
       IN  IF Len(ctx) >= context_length
           THEN Append(SubSeq(ctx, Len(ctx) - context_length + 2, Len(ctx)), message)
           ELSE Append(ctx, message)

clear_conversation == << >>

(***************************************************************************)
(* AudioProcessor: continuous listening.                                   *)
(***************************************************************************)
Audio == [is_listening |-> is_listening, listen_thread |-> listen_thread,
          listen_orphans |-> listen_orphans]

SetAudio(a) ==
  /\ is_listening' = a.is_listening
  /\ listen_thread' = a.listen_thread
  /\ listen_orphans' = a.listen_orphans

\* join(timeout=1.5) of the listen thread: the worker may still be recording
\* when the timeout ends; it then lives on with no field naming it
ListenJoinOutcomes == IF listen_orphans < MaxOrphans THEN {TRUE, FALSE} ELSE {FALSE}

stop_continuous_listening(a, join_timed_out) ==
  IF ~a.is_listening /\ a.listen_thread # "alive" THEN a
  ELSE [is_listening   |-> FALSE,
        listen_thread  |-> "None",
        listen_orphans |-> IF a.listen_thread = "alive" /\ join_timed_out
                           THEN a.listen_orphans + 1 ELSE a.listen_orphans]

start_continuous_listening(a, join_timed_out) ==
  IF a.is_listening THEN a
  ELSE IF a.listen_thread = "alive"
       \* the cleanup call clears is_listening again: the new worker ends at once
       THEN [stop_continuous_listening([a EXCEPT !.is_listening = TRUE], join_timed_out)
               EXCEPT !.listen_thread = "dead"]
       ELSE [a EXCEPT !.is_listening = TRUE, !.listen_thread = "alive"]

(***************************************************************************)
(* NavigationManager: the tracking session.                                *)
(***************************************************************************)
Nav == [tracking_enabled |-> tracking_enabled, tracking_thread |-> tracking_thread,
        destination_name |-> destination_name, tracking_threads |-> tracking_threads]

SetNav(n) ==
  /\ tracking_enabled' = n.tracking_enabled
  /\ tracking_thread' = n.tracking_thread
  /\ destination_name' = n.destination_name
  /\ tracking_threads' = n.tracking_threads

\* join(timeout=1): join_timed_out says the thread did not end within the
\* second; otherwise it saw the cleared flag and ended
stop_destination_tracking(n, join_timed_out) ==
  IF ~n.tracking_enabled THEN n
  ELSE
    LET t == n.tracking_thread
        ended == t # 0 /\ ~join_timed_out /\ n.tracking_threads[t] \in {"loop", "arrived"}
    IN  [tracking_enabled |-> FALSE,
         tracking_thread  |-> 0,
         destination_name |-> None,
         tracking_threads |-> IF ended THEN [n.tracking_threads EXCEPT ![t] = "dead"]
                              ELSE n.tracking_threads]

\* the flag set and no thread started; C16 does not hold of it
start_destination_tracking_no_thread(n, name, join_timed_out) ==
  [tracking_enabled |-> TRUE,
   tracking_thread  |-> 0,
   destination_name |-> Some(name),
   tracking_threads |-> n.tracking_threads]

start_destination_tracking(n, name, join_timed_out) ==
  LET n1 == IF n.tracking_enabled THEN stop_destination_tracking(n, join_timed_out) ELSE n
      t  == Min({u \in TIDs : n1.tracking_threads[u] = "dead"})
  IN  [tracking_enabled |-> TRUE,
       tracking_thread  |-> t,
       destination_name |-> Some(name),
       tracking_threads |-> [n1.tracking_threads EXCEPT ![t] = "loop"]]

\* a slot is left for the thread start_destination_tracking creates
CanStartTracking(n, join_timed_out) ==
  LET n1 == IF n.tracking_enabled THEN stop_destination_tracking(n, join_timed_out) ELSE n
  IN  \E u \in TIDs : n1.tracking_threads[u] = "dead"

\* _check_destination_progress with telemetry at hand.  Distances are in
\* tenths of a nautical mile, speeds in knots, headings in degrees.
arrival_threshold == 5
off_course_threshold == 15

heading_difference(current_heading, target_heading) ==
  LET abs(x) == IF x < 0 THEN 0 - x ELSE x IN
  abs(((target_heading - current_heading + 180) % 360) - 180)

\* 0.9 <= (distance / ground_speed) * 60 <= 1.1, for ground_speed > 0
one_minute_away(distance, ground_speed) ==
  /\ ground_speed > 0
  /\ 9 * ground_speed <= 60 * distance
  /\ 60 * distance <= 11 * ground_speed

\* a tick that calls on_update before the other callbacks; C25 does not hold
\* of it
_check_destination_progress_update_first(distance, ground_speed, current_heading, target_heading) ==
  [fired |-> IF distance <= arrival_threshold THEN <<"on_arrival">>
             ELSE <<"on_update">>
                    \o (IF one_minute_away(distance, ground_speed)
                        THEN <<"on_one_minute_away">> ELSE << >>),
   off_course |-> None,
   tracking_enabled |-> distance > arrival_threshold]

\* the callbacks one tick calls, in the order of the calls, the arguments of
\* on_off_course and the flag the tick leaves
_check_destination_progress(distance, ground_speed, current_heading, target_heading) ==
  IF distance <= arrival_threshold
  THEN [fired |-> <<"on_arrival">>, off_course |-> None, tracking_enabled |-> FALSE]
  ELSE [fired |->
          (IF one_minute_away(distance, ground_speed)
           THEN <<"on_one_minute_away">> ELSE << >>)
          \o (IF /\ current_heading # None
                 /\ heading_difference(current_heading[1], target_heading)
                      > off_course_threshold
              THEN <<"on_off_course">> ELSE << >>)
          \o <<"on_update">>,
        off_course |->
          IF /\ current_heading # None
             /\ heading_difference(current_heading[1], target_heading) > off_course_threshold
          THEN Some(<<current_heading[1], target_heading,
                      heading_difference(current_heading[1], target_heading)>>)
          ELSE None,
        tracking_enabled |-> TRUE]

(***************************************************************************)
(* Observation of the calls.                                               *)
(***************************************************************************)
\* op: the call that returned (handle_command, the end of a worker thread,
\* on_arrival); cmd: its argument (the kind of the worker); st: the state
\* handle_command was called in; ret: "True", "False", "None", "raised" (an
\* exception left the call) or "caught" (a collaborator raised and the
\* worker's except clause ran); stops: the calls of
\* stop_continuous_listening it made
Ev(op, cmd, st, ret, stops) ==
  [op |-> op, cmd |-> cmd, st |-> st, ret |-> ret, stops |-> stops]

\* a step that ends no call
NoEv == Ev("", "", "", "None", 0)

MainIdle == [pc |-> "idle", h |-> "", cmd |-> "", st |-> "", stops |-> 0]
WorkerIdle == [pc |-> "idle", kind |-> "", cmd |-> "", next_state |-> "", response |-> "",
               exc |-> "none"]

\* the objects as their constructors leave them, before main_event_loop,
\* but for the state of the manager
ConstructedIn(sm) ==
  /\ current_state = sm.current_state
  /\ previous_state = sm.previous_state
  /\ conversation_context = << >>
  /\ last_destination = None
  /\ last_dest_lat = None
  /\ last_dest_lon = None
  /\ navigation_active = FALSE
  /\ active_api = default_provider
  /\ state_lock = 0
  /\ is_listening = FALSE
  /\ listen_thread = "None"
  /\ listen_orphans = 0
  /\ audio_queue = << >>
  /\ tracking_enabled = FALSE
  /\ tracking_thread = 0
  /\ destination_name = None
  /\ tracking_threads = [t \in TIDs |-> "dead"]
  /\ main = [MainIdle EXCEPT !.pc = "boot"]
  /\ workers = [w \in WIDs |-> WorkerIdle]
  /\ ev = NoEv
  /\ issued = 0

\* StateManager.__init__
Constructed == ConstructedIn([current_state |-> "STANDBY", previous_state |-> None])

Init == Constructed /\ faults = {}

InitFaults == Constructed /\ faults = {"raise"}

\* the manager after change_state(AppState.ERROR, reason), nothing in flight
InitError ==
  /\ \E sm \in {[current_state |-> "STANDBY", previous_state |-> None]} :
       ConstructedIn(change_state(sm, "ERROR"))
  /\ faults = {}


(***************************************************************************)
(* main_event_loop, the listen worker and the keyboard.                    *)
(***************************************************************************)
\* ap.start_continuous_listening() before the loop is entered
MainStart ==
  /\ main.pc = "boot"
  /\ SetAudio(start_continuous_listening(Audio, FALSE))
  /\ main' = MainIdle
  /\ ev' = NoEv
  /\ UNCHANGED <<smVars, audio_queue, navVars, workers, faults, issued>>

\* a mapped key or joystick button: the loop itself puts the command
KeyPress ==
  /\ main.pc = "idle"
  /\ Len(audio_queue) < MaxQueue
  /\ issued < MaxCommands
  /\ issued' = issued + 1
  /\ \E command \in KeyCommands : audio_queue' = Append(audio_queue, command)
  /\ ev' = NoEv
  /\ UNCHANGED <<smVars, audioVars, navVars, main, workers, faults>>

\* _listen_worker of the thread self.listen_thread names: one pass of the loop
ListenWorker ==
  /\ listen_thread = "alive"
  /\ is_listening
  /\ Len(audio_queue) < MaxQueue
  /\ issued < MaxCommands
  /\ issued' = issued + 1
  /\ \E text \in Utterances : audio_queue' = Append(audio_queue, text)
  /\ ev' = NoEv
  /\ UNCHANGED <<smVars, audioVars, navVars, main, workers, faults>>

\* a worker that outlived its join ends the recording it was in, puts the
\* text if there is any, and tests is_listening again
OrphanListenWorker ==
  /\ listen_orphans > 0
  /\ \E text \in Utterances \cup {""} :
       /\ text # "" => Len(audio_queue) < MaxQueue /\ issued < MaxCommands
       /\ issued' = IF text = "" THEN issued ELSE issued + 1
       /\ audio_queue' = IF text = "" THEN audio_queue ELSE Append(audio_queue, text)
  /\ listen_orphans' = IF is_listening THEN listen_orphans ELSE listen_orphans - 1
  /\ ev' = NoEv
  /\ UNCHANGED <<smVars, is_listening, listen_thread, navVars, main, workers, faults>>

\* add_to_conversation(role, content) called by itself; ret says whether the
\* deque was full and took the message
AddToConversationCall ==
  /\ \E role \in {"user", "assistant", "system", "tool"}, content \in {"", "a", "b", "c"} :
       /\ conversation_context' = add_to_conversation(conversation_context, role, content)
       /\ ev' = Ev("add_to_conversation", content, role,
                   IF conversation_context' = conversation_context THEN "None"
                   ELSE IF Len(conversation_context) >= context_length THEN "evicted"
                   ELSE "appended", 0)
  /\ UNCHANGED <<current_state, previous_state, last_destination, last_dest_lat,
                 last_dest_lon, navigation_active, active_api, state_lock, audioVars,
                 audio_queue, navVars, main, workers, faults, issued>>

\* clear_conversation() called by itself
ClearConversationCall ==
  /\ conversation_context' = clear_conversation
  /\ ev' = Ev("clear_conversation", "", "", "None", 0)
  /\ UNCHANGED <<current_state, previous_state, last_destination, last_dest_lat,
                 last_dest_lon, navigation_active, active_api, state_lock, audioVars,
                 audio_queue, navVars, main, workers, faults, issued>>

\* AIManager.generate_response(messages, provider) called by itself, the HTTP
\* exchange of each provider ending as outcome says
GenerateResponseCall ==
  /\ \E provider \in {"", "openai", "grok", "claude"},
        outcome \in [{providers[i] : i \in 1..Len(providers)} -> ProviderOutcomes] :
       ev' = [op       |-> "generate_response",
              provider |-> provider,
              outcome  |-> outcome,
              result   |-> generate_response(provider, outcome),
              calls    |-> generate_response_calls(provider, outcome)]
  /\ UNCHANGED <<smVars, audioVars, audio_queue, navVars, main, workers, faults, issued>>

\* generate_response(messages) of one provider called by itself
ProviderCall ==
  /\ \E i \in 1..Len(providers), outcome \in ProviderOutcomes :
       ev' = [op       |-> "provider_generate_response",
              provider |-> providers[i],
              outcome  |-> outcome,
              result   |-> provider_generate_response(providers[i], outcome)]
  /\ UNCHANGED <<smVars, audioVars, audio_queue, navVars, main, workers, faults, issued>>

\* the callbacks registered: each returns, raises or calls change_state, and
\* at most one of them calls change_state
CallbackLists ==
  {callbacks \in
     UNION {[1..n -> {[does |-> "return", new_state |-> ""],
                      [does |-> "raise", new_state |-> ""],
                      [does |-> "change_state", new_state |-> "ACTIVE"],
                      [does |-> "change_state", new_state |-> "STANDBY"]}] :
            n \in 0..MaxCallbacks} :
     Cardinality({i \in 1..Len(callbacks) : callbacks[i].does = "change_state"}) <= 1}

\* change_state(new_state, reason) called with the callbacks registered;
\* the call holds state_lock from the test of line 55 to the last callback,
\* so the calls of several threads come one after the other
ChangeStateCallbacksCall ==
  /\ \E new_state \in AppState, reason \in {"Wake word"}, callbacks \in CallbackLists :
       LET run == change_state_with_callbacks(
                    [sm |-> SM, log |-> << >>, applied |-> << >>, raised |-> FALSE],
                    new_state, reason, callbacks)
       IN  /\ SetSM(run.sm)
           /\ ev' = [op |-> "change_state", st |-> current_state, new_state |-> new_state,
                     reason |-> reason, callbacks |-> callbacks, log |-> run.log,
                     applied |-> run.applied, raised |-> run.raised]
  /\ UNCHANGED <<conversation_context, last_destination, last_dest_lat, last_dest_lon,
                 navigation_active, active_api, state_lock, audioVars, audio_queue,
                 navVars, main, workers, faults, issued>>

\* change_state(new_state, reason) called by itself, with up to
\* MaxCallbacks callbacks registered
ChangeStateCall ==
  /\ \E new_state \in AppState, callbacks \in 0..MaxCallbacks :
       /\ SetSM(change_state(SM, new_state))
       /\ ev' = [Ev("change_state", new_state, current_state, "None", 0) EXCEPT
                  !.ret = change_state_effects(SM, new_state, callbacks)]
  /\ UNCHANGED <<conversation_context, last_destination, last_dest_lat, last_dest_lon,
                 navigation_active, active_api, state_lock, audioVars, audio_queue,
                 navVars, main, workers, faults, issued>>

(***************************************************************************)
(* StateManager.handle_wake_word.                                          *)
(***************************************************************************)
\* the result of handle_wake_word(wake_word) in STANDBY: what it returns and
\* the state, queue and audio it leaves.  fault: speak raises.
handle_wake_word(wake_word, sm, queue, a, fault) ==
  LET same  == [ret |-> "False", sm |-> sm, queue |-> queue, audio |-> a]
      awake == [ret |-> "True", sm |-> change_state(sm, "ACTIVE"), queue |-> << >>,
                audio |-> start_continuous_listening(a, FALSE)]
  IN
  IF sm.current_state # "STANDBY" THEN same
  ELSE CASE wake_of[wake_word] = "exact" ->
              \* speak comes after change_state and before the queue is cleared
              IF fault = "raise"
              THEN [ret |-> "raised", sm |-> change_state(sm, "ACTIVE"), queue |-> queue,
                    audio |-> a]
              ELSE awake
         [] wake_of[wake_word] = "fuzzy" ->
              [same EXCEPT !.ret = IF fault = "raise" THEN "raised" ELSE "True"]
         [] wake_of[wake_word] = "reactivate" ->
              \* speak is the last statement of the branch
              IF fault = "raise" THEN [awake EXCEPT !.ret = "raised"] ELSE awake
         [] wake_of[wake_word] = "reactivate_where_am_i" -> awake
         [] OTHER -> same

(***************************************************************************)
(* StateManager.handle_command, on the event-loop thread.                  *)
(***************************************************************************)
WorkerKinds == {"where_am_i", "navigation", "tour", "general"}

\* get_next_command gave a junk command: it is ignored
HandleJunk ==
  /\ main.pc = "idle"
  /\ audio_queue # << >>
  /\ junk_of[Head(audio_queue)]
  /\ audio_queue' = Tail(audio_queue)
  /\ ev' = Ev("handle_command", Head(audio_queue), current_state, "False", 0)
  /\ UNCHANGED <<smVars, audioVars, navVars, main, workers, faults, issued>>

\* STANDBY: the command goes to handle_wake_word
HandleStandby ==
  /\ main.pc = "idle"
  /\ audio_queue # << >>
  /\ ~junk_of[Head(audio_queue)]
  /\ current_state = "STANDBY"
  /\ state_lock = 0
  /\ \E fault \in SyncFaultChoices :
       LET r == handle_wake_word(Head(audio_queue), SM, Tail(audio_queue), Audio, fault)
       IN  /\ SetSM(r.sm)
           /\ audio_queue' = r.queue
           /\ SetAudio(r.audio)
           /\ ev' = Ev("handle_command", Head(audio_queue), current_state, r.ret, 0)
  /\ UNCHANGED <<conversation_context, last_destination, last_dest_lat, last_dest_lon,
                 navigation_active, active_api, state_lock, navVars, main, workers, faults, issued>>

\* a state that is neither STANDBY nor ACTIVE nor WAITING: the command is dropped
HandleBusy ==
  /\ main.pc = "idle"
  /\ audio_queue # << >>
  /\ ~junk_of[Head(audio_queue)]
  /\ current_state # "STANDBY"
  /\ ~IsAccepting(current_state)
  /\ audio_queue' = Tail(audio_queue)
  /\ ev' = Ev("handle_command", Head(audio_queue), current_state, "False", 0)
  /\ UNCHANGED <<smVars, audioVars, navVars, main, workers, faults, issued>>

\* set_active_api without the test of ai_manager.providers
set_active_api_unchecked(api_provider, loaded, active) ==
  [ret |-> TRUE, active_api |-> lower(api_provider)]

\* set_active_api: its return value and active_api after it; loaded are the
\* keys of ai_manager.providers
set_active_api(api_provider, loaded, active) ==
  LET api_lower == lower(api_provider) IN
  IF api_lower \notin loaded
  THEN [ret |-> FALSE, active_api |-> active]
  ELSE [ret |-> TRUE, active_api |-> api_lower]

\* ACTIVE / WAITING: the part of the routed branch that runs before its first
\* change_state (which may have to wait for state_lock)
HandleAccepting ==
  /\ main.pc = "idle"
  /\ audio_queue # << >>
  /\ ~junk_of[Head(audio_queue)]
  /\ IsAccepting(current_state)
  /\ LET command   == Head(audio_queue)
         cmd_lower == lower(strip(command))
         route     == route_of[command, current_state]
         \* "tell me when": if self.last_destination
         h         == IF route = "tell_me_when" /\ last_destination \in {None, Some("")}
                      THEN "no_destination" ELSE route
         ctx       == IF user_turn_of[command]
                      THEN add_to_conversation(conversation_context, "user", command)
                      ELSE conversation_context
         provider  == IF contains(cmd_lower, "grok") THEN "grok"
                      ELSE IF contains(cmd_lower, "open") THEN "openai" ELSE ""
         known     == \E i \in 1..Len(providers) : providers[i] = provider
         \* the branches that call speak before anything else
         speaks_first == \/ h \in {"negative", "deactivate", "reset", "question",
                                   "no_destination"}
                         \/ h = "switch" /\ ~known
     IN
     /\ audio_queue' = Tail(audio_queue)
     /\ \E fault \in SyncFaultChoices, jl \in ListenJoinOutcomes, jt \in BOOLEAN :
          IF fault = "raise" /\ speaks_first
          THEN \* speak raises: the exception leaves handle_command
               /\ conversation_context' = ctx
               /\ main' = MainIdle
               /\ ev' = Ev("handle_command", command, current_state, "raised", 0)
               /\ UNCHANGED <<audioVars, navVars, navigation_active, active_api>>
          ELSE
            LET stops_listening == h \in {"negative", "deactivate", "tell_me_when"} \cup WorkerKinds
                a1 == IF stops_listening THEN stop_continuous_listening(Audio, jl) ELSE Audio
                stops_tracking == h \in {"deactivate", "reset"} /\ navigation_active
                n1 == IF stops_tracking THEN stop_destination_tracking(Nav, jt) ELSE Nav
            IN
            /\ conversation_context' = IF h = "reset" THEN clear_conversation ELSE ctx
            /\ SetNav(n1)
            /\ navigation_active' = IF stops_tracking THEN FALSE ELSE navigation_active
            /\ IF h = "switch"
               THEN \* set_active_api and the restart of the listening: no change_state
                    /\ active_api' =
                         IF provider # ""
                         THEN set_active_api(provider,
                                             {providers[i] : i \in 1..Len(providers)},
                                             active_api).active_api
                         ELSE active_api
                    /\ SetAudio(start_continuous_listening(a1, jl))
                    /\ main' = MainIdle
                    /\ ev' = Ev("handle_command", command, current_state, "True", 0)
               ELSE /\ active_api' = active_api
                    /\ SetAudio(a1)
                    /\ main' = [pc |-> IF h = "tell_me_when" THEN "tmw1" ELSE "post",
                                h |-> h, cmd |-> command, st |-> current_state,
                                stops |-> IF stops_listening THEN 1 ELSE 0]
                    /\ ev' = NoEv
  /\ UNCHANGED <<current_state, previous_state, last_destination, last_dest_lat,
                 last_dest_lon, state_lock, workers, faults, issued>>

\* the slot of the thread threading.Thread(...).start() creates
FreeWorker == Min({w \in WIDs : workers[w].pc = "idle"})

\* the rest of the routed branch, from its change_state on
HandleAcceptingFinish ==
  /\ main.pc = "post"
  /\ state_lock = 0
  /\ LET h == main.h IN
     /\ SetSM(change_state(SM, CASE h \in {"negative", "deactivate"} -> "STANDBY"
                                 [] h \in WorkerKinds -> "PROCESSING"
                                 [] OTHER -> "ACTIVE"))
     /\ conversation_context' = IF h = "deactivate" THEN clear_conversation
                                ELSE conversation_context
     /\ IF h \in {"reset", "question", "no_destination"}
        THEN SetAudio(start_continuous_listening(Audio, FALSE))
        ELSE UNCHANGED audioVars
     /\ IF h \in WorkerKinds
        THEN /\ \E w \in WIDs : workers[w].pc = "idle"
             /\ workers' = [workers EXCEPT ![FreeWorker] =
                              [WorkerIdle EXCEPT !.pc = "body", !.kind = h, !.cmd = main.cmd]]
        ELSE UNCHANGED workers
     /\ ev' = Ev("handle_command", main.cmd, main.st, "True", main.stops)
  /\ main' = MainIdle
  /\ UNCHANGED <<last_destination, last_dest_lat, last_dest_lon, navigation_active,
                 active_api, state_lock, audio_queue, navVars, faults, issued>>


(***************************************************************************)
(* The "tell me when" branch of handle_command, which runs on the event-   *)
(* loop thread, and _setup_arrival_notification.                           *)
(***************************************************************************)
\* change_state(PROCESSING) and _setup_arrival_notification up to the start
\* of the tracking thread
TellMeWhenSetup ==
  /\ main.pc = "tmw1"
  /\ state_lock = 0
  /\ SetSM(change_state(SM, "PROCESSING"))
  /\ \E jt \in BOOLEAN :
       LET n1 == IF navigation_active THEN stop_destination_tracking(Nav, jt) ELSE Nav
           incomplete == \/ last_destination = None \/ last_destination = Some("")
                         \/ last_dest_lat = None \/ last_dest_lon = None
       IN
       IF incomplete
       THEN /\ SetNav(n1)
            /\ navigation_active' = FALSE
            /\ main' = [main EXCEPT !.pc = "tmw3", !.h = "setup_failed"]
       ELSE /\ CanStartTracking(n1, jt)
            /\ SetNav(start_destination_tracking(n1, last_destination[1], jt))
            /\ navigation_active' = FALSE
            /\ main' = [main EXCEPT !.pc = "tmw2"]
  /\ ev' = NoEv
  /\ UNCHANGED <<conversation_context, last_destination, last_dest_lat, last_dest_lon,
                 active_api, state_lock, audioVars, audio_queue, workers, faults, issued>>

\* self.navigation_active = success, after start_destination_tracking returned
TellMeWhenAssign ==
  /\ main.pc = "tmw2"
  /\ navigation_active' = TRUE
  /\ main' = [main EXCEPT !.pc = "tmw3"]
  /\ ev' = NoEv
  /\ UNCHANGED <<current_state, previous_state, conversation_context, last_destination,
                 last_dest_lat, last_dest_lon, active_api, state_lock, audioVars,
                 audio_queue, navVars, workers, faults, issued>>

\* speak(msg), change_state(next_state) and the restart of the listening
TellMeWhenFinish ==
  /\ main.pc = "tmw3"
  /\ state_lock = 0
  /\ \E fault \in SyncFaultChoices :
       IF fault = "raise"
       THEN \* speak raises: nothing after it runs
            /\ ev' = Ev("handle_command", main.cmd, main.st, "raised", main.stops)
            /\ UNCHANGED <<current_state, previous_state, audioVars>>
       ELSE LET sm == change_state(SM, IF main.h = "setup_failed" THEN "ACTIVE"
                                       ELSE "NAVIGATION")
            IN  /\ SetSM(sm)
                /\ IF sm.current_state # "STANDBY"
                   THEN SetAudio(start_continuous_listening(Audio, FALSE))
                   ELSE UNCHANGED audioVars
                /\ ev' = Ev("handle_command", main.cmd, main.st, "True", main.stops)
  /\ main' = MainIdle
  /\ UNCHANGED <<conversation_context, last_destination, last_dest_lat, last_dest_lon,
                 navigation_active, active_api, state_lock, audio_queue, navVars, workers,
                 faults, issued>>


\* a worker whose except clause asks for ERROR; C38 does not hold of it
WorkerResult_error_state(kind, exc, dir_info, response, is_err, speak_ok) ==
  IF exc # "none"
  THEN [next_state |-> "ERROR", response |-> "", assistant |-> FALSE, dest |-> None,
        exc |-> exc]
  ELSE IF speak_ok /\ ~is_err
  THEN [next_state |-> "WAITING", response |-> response, assistant |-> TRUE,
        dest |-> IF kind = "navigation" THEN dir_info ELSE None, exc |-> "none"]
  ELSE [next_state |-> "ACTIVE", response |-> response, assistant |-> FALSE, dest |-> None,
        exc |-> "none"]

(***************************************************************************)
(* The command workers: _handle_where_am_i_with_tour,                      *)
(* _handle_navigation_request, _handle_tour_request and                    *)
(* _handle_general_question.                                               *)
(***************************************************************************)
\* What the try / except part of a worker computes.  fault: a collaborator
\* call of the try body raises ("try"), and the speak of the except clause
\* raises as well ("except").  dir_info is the answer of
\* get_direction_to_destination and response the text to speak.  The result
\* names next_state, the response, whether the response became an assistant
\* turn, the destination stored and exc: "none", "handled" (the handler
\* raised ValueError itself and the except clause ran), "caught" (a
\* collaborator raised and the except clause ran) or "escaped" (the except
\* clause raised: the exception leaves the handler once finally has run).
WorkerResult(kind, exc, dir_info, response, is_err, speak_ok) ==
  IF exc # "none"
  THEN [next_state |-> "ACTIVE", response |-> "", assistant |-> FALSE, dest |-> None,
        exc |-> exc]
  ELSE IF speak_ok /\ ~is_err
  THEN [next_state |-> "WAITING", response |-> response, assistant |-> TRUE,
        dest |-> IF kind = "navigation" THEN dir_info ELSE None, exc |-> "none"]
  ELSE [next_state |-> "ACTIVE", response |-> response, assistant |-> FALSE, dest |-> None,
        exc |-> "none"]

\* is_err of the handler of the kind
IsErr(kind, response) ==
  IF kind = "navigation"
  THEN AnyStartsWith(response, <<"I couldn't find", "I encountered">>)
  ELSE AnyStartsWith(response, ai_manager_error_indicators)

WorkerRespond(kind, fault, flight_data, dir_info, response, speak_ok) ==
  WorkerResult(kind,
               CASE fault = "except" -> "escaped"
                 [] fault = "try" -> "caught"
                 [] kind \in {"where_am_i", "tour"} /\ flight_data # "ok" -> "handled"
                 [] kind = "navigation" /\ dir_info = None -> "handled"
                 [] OTHER -> "none",
               dir_info, response, IsErr(kind, response), speak_ok)

WorkerOutcome(kind, fault, flight_data, dir_info, ai_response, speak_ok) ==
  WorkerRespond(kind, fault, flight_data, dir_info,
                IF kind = "navigation" THEN format_navigation_response(dir_info)
                ELSE ai_response,
                speak_ok)

\* the writes of the try body of worker w, given what it computed
WorkerStore(w, r) ==
  /\ conversation_context' =
       IF r.assistant
       THEN add_to_conversation(conversation_context, "assistant", r.response)
       ELSE conversation_context
  /\ last_destination' = IF r.dest # None THEN Some(r.dest[1].destination_name)
                         ELSE last_destination
  /\ last_dest_lat' = IF r.dest # None THEN Some(r.dest[1].latitude) ELSE last_dest_lat
  /\ last_dest_lon' = IF r.dest # None THEN Some(r.dest[1].longitude) ELSE last_dest_lon
  /\ workers' = [workers EXCEPT ![w].pc = "finally",
                                ![w].next_state = r.next_state,
                                ![w].response = r.response,
                                ![w].exc = r.exc]

\* the try body and the except clause of worker w
WorkerBody(w) ==
  /\ workers[w].pc = "body"
  /\ \E fault \in FaultChoices, speak_ok \in BOOLEAN,
        \* each input is drawn where the handler reads it
        flight_data \in IF workers[w].kind = "general" THEN {"ok"} ELSE FlightDataCases,
        outcome \in IF workers[w].kind = "navigation" THEN {OkMap} ELSE OutcomeMaps,
        geocoded \in IF workers[w].kind = "navigation" THEN GeocodeResults ELSE {None},
        heading_ok \in IF workers[w].kind = "navigation" THEN BOOLEAN ELSE {TRUE} :
       WorkerStore(w, WorkerOutcome(workers[w].kind, fault, flight_data,
                                    direction_of[workers[w].cmd, flight_data, geocoded,
                                                 heading_ok],
                                    generate_response(active_api, outcome), speak_ok))
  /\ ev' = NoEv
  /\ UNCHANGED <<current_state, previous_state, navigation_active, active_api, state_lock,
                 audioVars, audio_queue, navVars, main, faults, issued>>

\* a worker that sends every turn it has, without the cut to context_length
worker_messages_uncut(kind, hist, query) ==
  <<[role |-> "system", content |-> "prompt"]>> \o hist
    \o <<[role |-> "user", content |-> query]>>

\* msgs, the list a worker gives to ai_manager.generate_response: hist is the
\* conversation buffer and query the argument of the handler ("" for
\* _handle_where_am_i_with_tour, which has none)
worker_messages(kind, hist, query) ==
  LET \* s[-n:] of Python
      last(s, n) == IF n = 0 \/ n >= Len(s) THEN s
                    ELSE SubSeq(s, Len(s) - n + 1, Len(s))
      sys_msg  == [role |-> "system", content |-> "prompt"]
      user_q   == IF kind = "where_am_i" THEN "Loc info."
                  ELSE IF kind = "tour" /\ query = "tour request" THEN "Interesting things?"
                  ELSE query
      user_msg == [role |-> "user", content |-> user_q]
      recent   == last(hist, context_length - 1)
      is_redundant == recent # << >> /\ recent[Len(recent)] = user_msg
      msgs     == IF kind = "general"
                  THEN <<sys_msg>> \o recent
                         \o (IF is_redundant THEN << >> ELSE <<user_msg>>)
                  ELSE <<sys_msg>> \o last(hist, context_length - 2) \o <<user_msg>>
  IN  IF Len(msgs) > context_length
      THEN <<msgs[1]>> \o last(msgs, context_length - 1)
      ELSE msgs

\* the turns the handlers store: handle_command the command of the pilot, a
\* worker the response it has spoken
HandlerTurnCall ==
  /\ \E turn \in ({"user"} \X {"what is that", "give me a tour", "tour request"})
                  \cup ({"assistant"} \X {"You are over the bay."}) :
       conversation_context' = add_to_conversation(conversation_context, turn[1], turn[2])
  /\ ev' = NoEv
  /\ UNCHANGED <<current_state, previous_state, last_destination, last_dest_lat,
                 last_dest_lon, navigation_active, active_api, state_lock, audioVars,
                 audio_queue, navVars, main, workers, faults, issued>>

\* a worker builds its messages from the buffer as it is
WorkerMessagesCall ==
  /\ \E kind \in {"where_am_i", "tour", "general"},
        query \in {"what is that", "give me a tour", "tour request"} :
       /\ kind = "where_am_i" => query = "what is that"
       /\ ev' = [op |-> "messages", kind |-> kind,
                 query |-> IF kind = "where_am_i" THEN "" ELSE query,
                 hist |-> conversation_context,
                 msgs |-> worker_messages(kind, conversation_context,
                                          IF kind = "where_am_i" THEN "" ELSE query)]
  /\ UNCHANGED <<smVars, audioVars, audio_queue, navVars, main, workers, faults, issued>>

SpecMessages == Init /\ [][HandlerTurnCall \/ WorkerMessagesCall]_vars

\* the try / except part of a worker by itself, with telemetry or without,
\* with the providers of AIManager loaded or none of them
WorkerCall ==
  /\ \E kind \in WorkerKinds, flight_data \in FlightDataCases, providers_loaded \in BOOLEAN,
        speak_ok \in BOOLEAN, outcome \in OutcomeMaps, geocoded \in GeocodeResults,
        query \in {"take me to the golden gate bridge", "where am i"} :
       ev' = [op |-> "worker", kind |-> kind, flight_data |-> flight_data,
              providers_loaded |-> providers_loaded, speak_ok |-> speak_ok,
              outcome |-> outcome, geocoded |-> geocoded, query |-> query,
              result |-> WorkerOutcome(kind, "none", flight_data,
                                       direction_of[query, flight_data, geocoded, TRUE],
                                       IF providers_loaded
                                       THEN generate_response(active_api, outcome)
                                       ELSE no_providers_response,
                                       speak_ok)]
  /\ UNCHANGED <<smVars, audioVars, audio_queue, navVars, main, workers, faults, issued>>

\* finally: start_continuous_listening (next_state is ACTIVE or WAITING)
WorkerRestartListening(w) ==
  /\ workers[w].pc = "finally"
  /\ IF workers[w].next_state \in {"ACTIVE", "WAITING"}
     THEN SetAudio(start_continuous_listening(Audio, FALSE))
     ELSE UNCHANGED audioVars
  /\ workers' = [workers EXCEPT ![w].pc = "change"]
  /\ ev' = NoEv
  /\ UNCHANGED <<smVars, audio_queue, navVars, main, faults, issued>>

\* finally: change_state(next_state), the last statement of the thread
WorkerChangeState(w) ==
  /\ workers[w].pc = "change"
  /\ state_lock = 0
  /\ SetSM(change_state(SM, workers[w].next_state))
  /\ workers' = [workers EXCEPT ![w] = WorkerIdle]
  /\ ev' = Ev("worker_exit", workers[w].kind, "",
             CASE workers[w].exc = "escaped" -> "raised"
               [] workers[w].exc = "caught" -> "caught"
               [] OTHER -> "None", 0)
  /\ UNCHANGED <<conversation_context, last_destination, last_dest_lat, last_dest_lon,
                 navigation_active, active_api, state_lock, audioVars, audio_queue,
                 navVars, main, faults, issued>>

(***************************************************************************)
(* The tracking threads: _tracking_loop, _check_destination_progress and   *)
(* the on_arrival callback of StateManager.                                *)
(***************************************************************************)
\* one pass of the loop in which the aircraft is not within the arrival
\* threshold (or there is no telemetry): the callbacks at most speak
TrackPoll(t) ==
  /\ tracking_threads[t] = "loop"
  /\ tracking_enabled
  /\ ev' = NoEv
  /\ UNCHANGED <<smVars, audioVars, audio_queue, navVars, main, workers, faults, issued>>

\* arrival: on_arrival takes state_lock, speaks and moves to ACTIVE
TrackArrival(t) ==
  /\ tracking_threads[t] = "loop"
  /\ tracking_enabled
  /\ state_lock = 0
  /\ \E fault \in SyncFaultChoices :
       IF current_state \notin {"STANDBY", "ERROR"}
       THEN IF fault = "raise"
            THEN \* speak raises: the loop logs the exception and goes on
                 /\ ev' = Ev("on_arrival", "", "", "raised", 0)
                 /\ UNCHANGED <<smVars, navVars>>
            ELSE /\ navigation_active' = FALSE
                 /\ SetSM(change_state(SM, "ACTIVE"))
                 /\ state_lock' = t
                 /\ tracking_threads' = [tracking_threads EXCEPT ![t] = "in_arrival"]
                 /\ ev' = Ev("on_arrival", "", "", "None", 0)
                 /\ UNCHANGED <<conversation_context, last_destination, last_dest_lat,
                                last_dest_lon, active_api, tracking_enabled,
                                tracking_thread, destination_name>>
       ELSE /\ navigation_active' = FALSE
            /\ tracking_threads' = [tracking_threads EXCEPT ![t] = "arrived"]
            /\ ev' = Ev("on_arrival", "", "", "None", 0)
            /\ UNCHANGED <<current_state, previous_state, conversation_context,
                           last_destination, last_dest_lat, last_dest_lon, active_api,
                           state_lock, tracking_enabled, tracking_thread, destination_name>>
  /\ UNCHANGED <<audioVars, audio_queue, main, workers, faults, issued>>

\* the end of on_arrival: start_continuous_listening, state_lock released
TrackArrivalListen(t) ==
  /\ tracking_threads[t] = "in_arrival"
  /\ state_lock = t
  /\ SetAudio(start_continuous_listening(Audio, FALSE))
  /\ state_lock' = 0
  /\ tracking_threads' = [tracking_threads EXCEPT ![t] = "arrived"]
  /\ ev' = NoEv
  /\ UNCHANGED <<current_state, previous_state, conversation_context, last_destination,
                 last_dest_lat, last_dest_lon, navigation_active, active_api, audio_queue,
                 tracking_enabled, tracking_thread, destination_name, main, workers, faults, issued>>

\* self.tracking_enabled = False after the callbacks returned
TrackArrivalDisable(t) ==
  /\ tracking_threads[t] = "arrived"
  /\ tracking_enabled' = FALSE
  /\ tracking_threads' = [tracking_threads EXCEPT ![t] = "loop"]
  /\ ev' = NoEv
  /\ UNCHANGED <<smVars, audioVars, audio_queue, tracking_thread, destination_name, main,
                 workers, faults, issued>>

\* one tick of _tracking_loop with telemetry: _check_destination_progress
\* calls the callbacks of StateManager; on_one_minute_away and on_off_course
\* at most speak, on_update logs, on_arrival is the one of TrackArrival.  The
\* sets are the telemetry and the bearings of the ticks explored.
CheckDestinationProgress(t) ==
  /\ tracking_threads[t] = "loop"
  /\ tracking_enabled
  /\ state_lock = 0
  /\ \E distance \in {3, 5, 6, 17, 20, 23, 100}, ground_speed \in {0, 120},
        current_heading \in {None, Some(0), Some(10), Some(350)},
        target_heading \in {5, 10, 350} :
       /\ ev' = [op |-> "tick", distance |-> distance, ground_speed |-> ground_speed,
                 current_heading |-> current_heading, target_heading |-> target_heading,
                 fired |-> _check_destination_progress(distance, ground_speed,
                             current_heading, target_heading).fired,
                 off_course |-> _check_destination_progress(distance, ground_speed,
                                  current_heading, target_heading).off_course]
       /\ IF _check_destination_progress(distance, ground_speed, current_heading,
                                         target_heading).tracking_enabled
          THEN UNCHANGED <<smVars, navVars>>
          ELSE IF current_state \notin {"STANDBY", "ERROR"}
          THEN /\ navigation_active' = FALSE
               /\ SetSM(change_state(SM, "ACTIVE"))
               /\ state_lock' = t
               /\ tracking_threads' = [tracking_threads EXCEPT ![t] = "in_arrival"]
               /\ UNCHANGED <<conversation_context, last_destination, last_dest_lat,
                              last_dest_lon, active_api, tracking_enabled,
                              tracking_thread, destination_name>>
          ELSE /\ navigation_active' = FALSE
               /\ tracking_threads' = [tracking_threads EXCEPT ![t] = "arrived"]
               /\ UNCHANGED <<current_state, previous_state, conversation_context,
                              last_destination, last_dest_lat, last_dest_lon, active_api,
                              state_lock, tracking_enabled, tracking_thread,
                              destination_name>>
  /\ UNCHANGED <<audioVars, audio_queue, main, workers, faults, issued>>

\* lines 296-304 by themselves, for the headings ev holds: the difference
\* computed and whether on_off_course is called with it
HeadingDifferenceCall ==
  /\ ev.op = "headings"
  /\ ev' = [op |-> "heading_difference", current_heading |-> ev.current_heading,
            target_heading |-> ev.target_heading,
            difference |-> heading_difference(ev.current_heading, ev.target_heading),
            fired |-> heading_difference(ev.current_heading, ev.target_heading)
                        > off_course_threshold]
  /\ UNCHANGED <<smVars, audioVars, audio_queue, navVars, main, workers, faults, issued>>

\* while self.tracking_enabled: the flag is cleared and the thread ends
TrackExit(t) ==
  /\ tracking_threads[t] = "loop"
  /\ ~tracking_enabled
  /\ tracking_threads' = [tracking_threads EXCEPT ![t] = "dead"]
  /\ ev' = NoEv
  /\ UNCHANGED <<smVars, audioVars, audio_queue, tracking_enabled, tracking_thread,
                 destination_name, main, workers, faults, issued>>

(***************************************************************************)
(* The specifications.                                                     *)
(***************************************************************************)
Next ==
  \/ MainStart
  \/ KeyPress
  \/ ListenWorker
  \/ OrphanListenWorker
  \/ HandleJunk
  \/ HandleStandby
  \/ HandleBusy
  \/ HandleAccepting
  \/ HandleAcceptingFinish
  \/ TellMeWhenSetup
  \/ TellMeWhenAssign
  \/ TellMeWhenFinish
  \/ \E w \in WIDs : WorkerBody(w)
  \/ \E w \in WIDs : WorkerRestartListening(w)
  \/ \E w \in WIDs : WorkerChangeState(w)
  \/ \E t \in TIDs : TrackPoll(t)
  \/ \E t \in TIDs : TrackArrival(t)
  \/ \E t \in TIDs : TrackArrivalListen(t)
  \/ \E t \in TIDs : TrackArrivalDisable(t)
  \/ \E t \in TIDs : TrackExit(t)

\* the program with collaborators that never raise
Spec == Init /\ [][Next]_vars

\* the program with collaborators that may raise
SpecFaults == InitFaults /\ [][Next]_vars

\* One call of handle_command(command) on the event-loop thread, in any
\* AppState, with or without turns in the buffer and a destination stored.
InitHandleCommand ==
  /\ current_state \in AppState
  /\ previous_state = None
  /\ conversation_context \in {<< >>, <<[role |-> "user", content |-> "hello"]>>}
  /\ \E dest \in {None, PoiDestination(poi_database[3])} :
       /\ last_destination = IF dest = None THEN None ELSE Some(dest[1].destination_name)
       /\ last_dest_lat = IF dest = None THEN None ELSE Some(dest[1].latitude)
       /\ last_dest_lon = IF dest = None THEN None ELSE Some(dest[1].longitude)
  /\ navigation_active = FALSE
  /\ active_api = default_provider
  /\ state_lock = 0
  /\ is_listening = TRUE
  /\ listen_thread = "alive"
  /\ listen_orphans = 0
  /\ \E command \in CallInputs : audio_queue = <<command>>
  /\ tracking_enabled = FALSE
  /\ tracking_thread = 0
  /\ destination_name = None
  /\ tracking_threads = [t \in TIDs |-> "dead"]
  /\ main = MainIdle
  /\ workers = [w \in WIDs |-> WorkerIdle]
  /\ ev = NoEv
  /\ issued = MaxCommands
  /\ faults = {}

\* The steps of Next that are enabled while the state is ERROR and neither a
\* worker nor a tracking thread is alive: handle_command sees a junk command
\* or takes its last branch, the one of HandleBusy.
SpecError ==
  InitError /\ [][\/ MainStart
                  \/ KeyPress
                  \/ ListenWorker
                  \/ HandleJunk
                  \/ HandleBusy]_vars

\* A tracking session armed by "tell me when": the machine is in NAVIGATION
\* and the thread of the session polls.
TrackingArmed ==
  /\ current_state = "NAVIGATION"
  /\ previous_state = Some("PROCESSING")
  /\ conversation_context = << >>
  /\ last_destination = Some(PoiDestination(poi_database[3])[1].destination_name)
  /\ last_dest_lat = Some(PoiDestination(poi_database[3])[1].latitude)
  /\ last_dest_lon = Some(PoiDestination(poi_database[3])[1].longitude)
  /\ navigation_active = TRUE
  /\ active_api = default_provider
  /\ state_lock = 0
  /\ is_listening = TRUE
  /\ listen_thread = "alive"
  /\ listen_orphans = 0
  /\ audio_queue = << >>
  /\ tracking_enabled = TRUE
  /\ tracking_thread = 1
  /\ destination_name = last_destination
  /\ tracking_threads = [t \in TIDs |-> IF t = 1 THEN "loop" ELSE "dead"]
  /\ main = MainIdle
  /\ workers = [w \in WIDs |-> WorkerIdle]
  /\ issued = MaxCommands
  /\ faults = {}

InitTracking == TrackingArmed /\ ev = NoEv

\* the ticks of one tracking session
SpecTracking ==
  InitTracking
  /\ [][\/ \E t \in TIDs : CheckDestinationProgress(t)
        \/ \E t \in TIDs : TrackArrivalListen(t)
        \/ \E t \in TIDs : TrackArrivalDisable(t)
        \/ \E t \in TIDs : TrackExit(t)]_vars

\* a tick of the session with the aircraft on any heading and the
\* destination on any bearing
InitHeading ==
  /\ TrackingArmed
  /\ \E current_heading \in 0..359, target_heading \in 0..359 :
       ev = [op |-> "headings", current_heading |-> current_heading,
             target_heading |-> target_heading]

SpecHeading == InitHeading /\ [][HeadingDifferenceCall]_vars

\* the workers with a collaborator missing
SpecWorker == Init /\ [][WorkerCall]_vars

\* calls of add_to_conversation and clear_conversation in any order
SpecConversation == Init /\ [][AddToConversationCall \/ ClearConversationCall]_vars

\* calls of the AI manager and of its providers
SpecAI == Init /\ [][GenerateResponseCall \/ ProviderCall]_vars

\* calls of change_state with callbacks registered
SpecCallbacks == Init /\ [][ChangeStateCallbacksCall]_vars

\* calls of change_state, one after the other
SpecChangeState == Init /\ [][ChangeStateCall]_vars

\* handle_command on the event-loop thread: the junk filter, the STANDBY and
\* the busy branch, and the routed branch up to its return
SpecHandleCommand ==
  InitHandleCommand /\ [][\/ HandleJunk
                          \/ HandleStandby
                          \/ HandleBusy
                          \/ HandleAccepting
                          \/ HandleAcceptingFinish
                          \/ TellMeWhenSetup
                          \/ TellMeWhenAssign
                          \/ TellMeWhenFinish]_vars

\* One "switch to" command given to handle_command, or one direct call of
\* set_active_api, under each configuration of the providers AIManager loaded.
InitSwitch ==
  /\ current_state \in AcceptingStates
  /\ previous_state = None
  /\ conversation_context = << >>
  /\ last_destination = None /\ last_dest_lat = None /\ last_dest_lon = None
  /\ navigation_active = FALSE
  /\ active_api \in {"openai", "grok"}
  /\ state_lock = 0
  /\ is_listening = TRUE
  /\ listen_thread = "alive"
  /\ listen_orphans = 0
  /\ \E command \in {"switch to grok", "switch to openai", " Switch to Grok. ",
                      "switch to claude", "switch to open ai please"} :
       audio_queue = <<command>>
  /\ tracking_enabled = FALSE
  /\ tracking_thread = 0
  /\ destination_name = None
  /\ tracking_threads = [t \in TIDs |-> "dead"]
  /\ main = MainIdle
  /\ workers = [w \in WIDs |-> WorkerIdle]
  /\ \E loaded \in SUBSET {"openai", "grok"} : ev = [op |-> "config", loaded |-> loaded]
  /\ issued = MaxCommands
  /\ faults = {}

\* handle_command, "switch to" branch, with ev.loaded the providers loaded
HandleSwitchCall ==
  /\ ev.op = "config"
  /\ audio_queue # << >>
  /\ LET command   == Head(audio_queue)
         cmd_lower == lower(strip(command))
         provider  == IF contains(cmd_lower, "grok") THEN "grok"
                      ELSE IF contains(cmd_lower, "open") THEN "openai" ELSE ""
         called    == set_active_api(provider, ev.loaded, active_api)
     IN
     /\ Classify(cmd_lower, current_state) = "switch"
     /\ audio_queue' = Tail(audio_queue)
     /\ active_api' = IF provider # "" THEN called.active_api ELSE active_api
     /\ \E jl \in ListenJoinOutcomes : SetAudio(start_continuous_listening(Audio, jl))
     /\ ev' = [op |-> "switch", cmd |-> command, st |-> current_state,
               loaded |-> ev.loaded, provider |-> provider, active_api |-> active_api,
               set_active_api |-> IF provider # "" THEN <<called.ret>> ELSE None,
               ret |-> "True"]
  /\ UNCHANGED <<current_state, previous_state, conversation_context, last_destination,
                 last_dest_lat, last_dest_lon, navigation_active, state_lock,
                 navVars, main, workers, faults, issued>>

\* a direct call of set_active_api
SetActiveApiCall ==
  /\ ev.op = "config"
  /\ \E api_provider \in {"grok", "openai", "Grok", "claude"} :
       LET called == set_active_api(api_provider, ev.loaded, active_api) IN
       /\ active_api' = called.active_api
       /\ \E jl \in ListenJoinOutcomes :
            SetAudio(IF called.ret /\ IsAccepting(current_state)
                     THEN start_continuous_listening(Audio, jl) ELSE Audio)
       /\ ev' = [op |-> "set_active_api", api_provider |-> api_provider,
                 st |-> current_state, loaded |-> ev.loaded, active_api |-> active_api,
                 ret |-> called.ret]
  /\ UNCHANGED <<current_state, previous_state, conversation_context, last_destination,
                 last_dest_lat, last_dest_lon, navigation_active, state_lock,
                 audio_queue, navVars, main, workers, faults, issued>>

SpecSwitch == InitSwitch /\ [][HandleSwitchCall \/ SetActiveApiCall]_vars

(***************************************************************************)
(* GeoUtils: geocode, reverse_geocode and their caches.  In SpecGeo the    *)
(* variable ev holds the GeoUtils object g together with the last call:    *)
(* geo_cache, the dict in memory, as the sequence of its items in          *)
(* insertion order; geocode_cache and reverse_cache, the two tables of     *)
(* geo_cache.db, which outlive the process; max_cache_size.  Coordinates   *)
(* are in millionths of a degree.                                          *)
(***************************************************************************)
\* processes started over the same geo_cache.db
MaxRuns == 2

\* geocode(location_name): the object after the call, the triple returned
\* and the tier that gave it
geocode(g, location_name) ==
  LET query == strip(lower(location_name))
      \* self.geolocator.geocode(query, exactly_one=True), None for a place
      \* Nominatim does not know
      location ==
        CASE query = "paris" ->
               <<[latitude |-> 48856600, longitude |-> 2352200,
                  address |-> "Paris, Ile-de-France, France"]>>
          [] query = "rome" ->
               <<[latitude |-> 41902800, longitude |-> 12496400,
                  address |-> "Roma, Lazio, Italia"]>>
          [] query = "the alamo" ->
               <<[latitude |-> 29425900, longitude |-> -98486200,
                  address |-> "The Alamo, 300, Alamo Plaza, San Antonio, Texas"]>>
          [] OTHER -> None
      in_memory == {i \in 1..Len(g.geo_cache) : g.geo_cache[i].query = query}
      in_db     == {r \in g.geocode_cache : r.query = query}
      \* if len(self.geo_cache) >= self.max_cache_size: pop the first key;
      \* then self.geo_cache[query] = (lat, lon)
      put(lat, lon) ==
        (IF Len(g.geo_cache) >= g.max_cache_size THEN Tail(g.geo_cache)
         ELSE g.geo_cache) \o <<[query |-> query, lat |-> lat, lon |-> lon]>>
  IN
  IF location_name = ""
  THEN [g |-> g, result |-> <<None, None, None>>, tier |-> "none"]
  ELSE IF in_memory # {}
  THEN LET hit == g.geo_cache[CHOOSE i \in in_memory : TRUE]
       IN  [g |-> g, result |-> <<Some(hit.lat), Some(hit.lon), Some(query)>>,
            tier |-> "memory"]
  ELSE IF in_db # {}
  THEN LET row == CHOOSE r \in in_db : TRUE
       IN  [g |-> [g EXCEPT !.geo_cache = put(row.latitude, row.longitude)],
            result |-> <<Some(row.latitude), Some(row.longitude), Some(row.display_name)>>,
            tier |-> "db"]
  ELSE IF location # None
  THEN LET l == location[1]
       IN  [g |-> [g EXCEPT !.geo_cache = put(l.latitude, l.longitude),
                            !.geocode_cache =
                               {r \in g.geocode_cache : r.query # query}
                               \cup {[query |-> query, latitude |-> l.latitude,
                                      longitude |-> l.longitude,
                                      display_name |-> l.address]}],
            result |-> <<Some(l.latitude), Some(l.longitude), Some(l.address)>>,
            tier |-> "geocoder"]
  ELSE [g |-> g, result |-> <<None, None, None>>, tier |-> "none"]

\* reverse_geocode(latitude, longitude), both given: the object after the
\* call, the name returned and whether reverse_cache had it
reverse_geocode(g, latitude, longitude) ==
  LET \* round(x, 5); no input lies halfway between two keys
      round5(x) == IF x < 0 THEN 0 - (((0 - x) + 5) \div 10) * 10
                   ELSE ((x + 5) \div 10) * 10
      lat_key == round5(latitude)
      lon_key == round5(longitude)
      rows    == {r \in g.reverse_cache : r.lat_key = lat_key /\ r.lon_key = lon_key}
      \* self.geolocator.reverse((latitude, longitude), language="en")
      location == IF latitude > 40000000 THEN <<"Paris, Ile-de-France, France">>
                  ELSE IF latitude > 0
                       THEN <<"Golden Gate Bridge, San Francisco, California">>
                  ELSE None
  IN
  IF rows # {}
  THEN [g |-> g, result |-> (CHOOSE r \in rows : TRUE).display_name, hit |-> TRUE,
        key |-> <<lat_key, lon_key>>]
  ELSE IF location # None
  THEN [g |-> [g EXCEPT !.reverse_cache =
                          @ \cup {[lat_key |-> lat_key, lon_key |-> lon_key,
                                   display_name |-> location[1]]}],
        result |-> location[1], hit |-> FALSE, key |-> <<lat_key, lon_key>>]
  ELSE [g |-> g, result |-> "Unknown location", hit |-> FALSE,
        key |-> <<lat_key, lon_key>>]

\* GeoUtils() of a process: __init__ seeds geo_cache and _init_db creates the
\* tables that are not there; tables is what geo_cache.db holds already
GeoUtilsInit(max_cache_size, tables) ==
  [max_cache_size |-> max_cache_size,
   geo_cache      |->
     <<[query |-> "the alamo", lat |-> 29425200, lon |-> -98486100],
       [query |-> "san antonio international airport", lat |-> 29533958, lon |-> -98469056],
       [query |-> "atlantic city", lat |-> 39364285, lon |-> -74422935],
       [query |-> "golden nugget", lat |-> 39380100, lon |-> -74428200],
       [query |-> "philadelphia", lat |-> 39952584, lon |-> -75165222],
       [query |-> "philly", lat |-> 39952584, lon |-> -75165222],
       [query |-> "philadelphia international airport", lat |-> 39875018, lon |-> -75235213],
       [query |-> "empire state building", lat |-> 40748400, lon |-> -73985700],
       [query |-> "statue of liberty", lat |-> 40689200, lon |-> -74044500],
       [query |-> "grand canyon", lat |-> 36054400, lon |-> -112258300],
       [query |-> "golden gate bridge", lat |-> 37819900, lon |-> -122478300]>>,
   geocode_cache  |-> tables.geocode_cache,
   reverse_cache  |-> tables.reverse_cache]

\* a process starts: geo_utils = GeoUtils() at the import of the module.  The
\* first process finds no geo_cache.db and reads geo_cache_size from the
\* configuration; a later one finds the tables the earlier ones left.
\* arg, result and tier are those of the last call.
GeoStartup ==
  /\ \/ /\ ev = NoEv
        /\ \E max_cache_size \in {10, 12, 50} :
             ev' = [op |-> "startup", runs |-> 1,
                    arg |-> None, result |-> None, tier |-> "",
                    g |-> GeoUtilsInit(max_cache_size,
                                       [geocode_cache |-> {}, reverse_cache |-> {}])]
     \/ /\ ev # NoEv
        /\ ev.runs < MaxRuns
        /\ ev' = [ev EXCEPT !.op = "startup", !.runs = @ + 1,
                            !.arg = None, !.result = None, !.tier = "",
                            !.g = GeoUtilsInit(ev.g.max_cache_size, ev.g)]
  /\ UNCHANGED <<smVars, audioVars, audio_queue, navVars, main, workers, faults, issued>>

\* geo_utils.geocode(location_name)
GeocodeCall ==
  /\ ev # NoEv
  /\ \E location_name \in {"", "Paris", " paris ", "rome", "atlantis", "the alamo"} :
       LET called == geocode(ev.g, location_name) IN
       ev' = [ev EXCEPT !.op = "geocode", !.arg = <<location_name>>,
                        !.result = <<called.result>>, !.tier = called.tier,
                        !.g = called.g]
  /\ UNCHANGED <<smVars, audioVars, audio_queue, navVars, main, workers, faults, issued>>

\* geo_utils.reverse_geocode(latitude, longitude)
ReverseGeocodeCall ==
  /\ ev # NoEv
  /\ \E at \in {<<37819900, -122478300>>, <<37819903, -122478301>>, <<-1000000, 0>>} :
       LET called == reverse_geocode(ev.g, at[1], at[2]) IN
       ev' = [ev EXCEPT !.op = "reverse_geocode", !.arg = <<at>>,
                        !.result = <<called.result>>,
                        !.tier = IF called.hit THEN "db" ELSE "miss",
                        !.g = called.g]
  /\ UNCHANGED <<smVars, audioVars, audio_queue, navVars, main, workers, faults, issued>>

SpecGeo == Init /\ [][GeoStartup \/ GeocodeCall \/ ReverseGeocodeCall]_vars

(***************************************************************************)
(* simconnect_loader: the server in use and toggle_simconnect.  The        *)
(* globals of the module are the fields of a record; time.time() is a      *)
(* count of seconds.                                                       *)
(***************************************************************************)
TOGGLE_COOLDOWN == 3

\* seconds of the clock explored after the import of the module
MaxTime == 8

\* _try_real_simconnect (kind "real") and _try_mock_simconnect (kind "mock"):
\* ok says that the module was imported and its sim_server passed the
\* validation; every other path returns (None, True)
_try_simconnect(s, kind, ok) ==
  [s EXCEPT !._connection_attempts = @ + 1,
            !._current_server = IF ok THEN kind ELSE "None",
            !._is_mock_mode = IF ok THEN kind = "mock" ELSE TRUE,
            !._last_error = IF ok THEN "" ELSE kind]

\* toggle_simconnect() at time current_time; the stop() of the previous
\* server changes nothing of the loader, whether it raises or not
toggle_simconnect(s, current_time, real_ok, mock_ok) ==
  IF current_time - s._last_toggle_time < TOGGLE_COOLDOWN
  THEN [ret |-> FALSE, s |-> [s EXCEPT !._last_error = "cooldown"]]
  ELSE
    LET s1 == [s EXCEPT !._last_toggle_time = current_time, !._toggle_attempts = @ + 1]
        previous_mode == s._is_mock_mode
        real == _try_simconnect(s1, "real", real_ok)
        s2 == IF s1._is_mock_mode
              THEN IF real._current_server = "None"
                   THEN _try_simconnect(real, "mock", mock_ok)
                   ELSE real
              ELSE _try_simconnect(s1, "mock", mock_ok)
        _toggle_success == previous_mode # s2._is_mock_mode \/ s2._current_server # "None"
    IN  [ret |-> _toggle_success, s |-> [s2 EXCEPT !._toggle_success = _toggle_success]]

\* the import of the module: the globals of lines 31-37, then
\* _initialize_simconnect(): the real server first, the mock one if that fails
SimStartup ==
  /\ ev = NoEv
  /\ \E real_ok \in BOOLEAN, mock_ok \in BOOLEAN :
       LET s0 == [_current_server |-> "None", _is_mock_mode |-> TRUE,
                  _connection_attempts |-> 0, _toggle_attempts |-> 0,
                  _last_toggle_time |-> 0, _toggle_success |-> FALSE, _last_error |-> ""]
           real == _try_simconnect(s0, "real", real_ok)
           s1 == IF real._current_server = "None"
                 THEN _try_simconnect(real, "mock", mock_ok) ELSE real
       IN  ev' = [op |-> "import", ret |-> s1._current_server # "None", now |-> 1000,
                  s |-> s1]
  /\ UNCHANGED <<smVars, audioVars, audio_queue, navVars, main, workers, faults, issued>>

\* F7 in the event loop: toggle_simconnect() some seconds after the last call
ToggleCall ==
  /\ ev # NoEv
  /\ \E dt \in 0..4, real_ok \in BOOLEAN, mock_ok \in BOOLEAN :
       /\ ev.now + dt <= 1000 + MaxTime
       /\ LET called == toggle_simconnect(ev.s, ev.now + dt, real_ok, mock_ok) IN
          ev' = [op |-> "toggle", ret |-> called.ret, now |-> ev.now + dt, s |-> called.s]
  /\ UNCHANGED <<smVars, audioVars, audio_queue, navVars, main, workers, faults, issued>>

SpecSim == Init /\ [][SimStartup \/ ToggleCall]_vars

(***************************************************************************)
(* Single flight and the commands that are dropped or declined.           *)
(***************************************************************************)
\* C1: under every interleaving of the event loop, the workers and the
\* tracking callbacks, at most one command worker is in flight: handle_command
\* starts no worker while an earlier one has not yet made its last
\* change_state out of PROCESSING.
C1_SingleFlight == Cardinality({w \in WIDs : workers[w].pc # "idle"}) <= 1

\* C2: handle_command called with a command that is not junk, in a state
\* other than STANDBY, ACTIVE and WAITING (PROCESSING among them), returns
\* False, starts no worker and leaves current_state, last_destination,
\* last_dest_lat, last_dest_lon and the conversation buffer as they are.
C2_BusyCommandDropped ==
  [][(/\ main.pc = "idle"
      /\ audio_queue # << >>
      /\ ~junk_of[Head(audio_queue)]
      /\ current_state \notin {"STANDBY", "ACTIVE", "WAITING"}
      /\ Len(audio_queue') < Len(audio_queue))
     => (/\ ev' = Ev("handle_command", Head(audio_queue), current_state, "False", 0)
         /\ main'.pc = "idle"
         /\ UNCHANGED <<workers, current_state, previous_state, last_destination,
                        last_dest_lat, last_dest_lon, conversation_context>>)]_vars

\* a command that is not junk was dropped in PROCESSING, a worker in flight
C2_Witness ==
  /\ ev.op = "handle_command"
  /\ ev.st = "PROCESSING"
  /\ ev.ret = "False"
  /\ ~junk_of[ev.cmd]
  /\ current_state = "PROCESSING"
  /\ \E w \in WIDs : workers[w].pc # "idle"

\* C3: from WAITING, each of "no", "stop" and "that's all" given to
\* handle_command moves the state to STANDBY and calls
\* stop_continuous_listening exactly once.
C3_NegativeToStandby ==
  (/\ ev.op = "handle_command"
   /\ ev.st = "WAITING"
   /\ ev.cmd \in {"no", "stop", "that's all"})
  => (current_state = "STANDBY" /\ ev.stops = 1)

(***************************************************************************)
(* Failure strings of the AI manager.                                      *)
(***************************************************************************)
\* C4: a failure string of the AI manager (a response that starts with one of
\* its error indicators, such as "Authentication failed for OpenAI. Please
\* check your API key.") is classified as an error by the where-am-i, tour
\* and general-question workers: the worker ends in ACTIVE, not WAITING, and
\* the string is no assistant turn of the conversation buffer.
C4_FailureStringIsError ==
  /\ \A w \in WIDs :
       (/\ workers[w].pc \in {"finally", "change"}
        /\ workers[w].kind \in {"where_am_i", "tour", "general"}
        /\ AnyStartsWith(workers[w].response, error_indicators))
       => workers[w].next_state = "ACTIVE"
  /\ \A i \in 1..Len(conversation_context) :
       conversation_context[i].role = "assistant"
       => ~AnyStartsWith(conversation_context[i].content, error_indicators)

(***************************************************************************)
(* Listening is restored.                                                  *)
(***************************************************************************)
\* C5: under fair scheduling of the event loop, the workers and the tracking
\* thread the machine comes to a state in which the next utterance is
\* processed: STANDBY, ACTIVE or WAITING with continuous listening on.  It
\* stays neither in PROCESSING or NAVIGATION nor in a state that takes
\* commands with listening off.  Stated of the states the program cannot
\* leave by a step of its own (the event loop is idle and the queue empty, no
\* worker, tracking thread or outlived listen worker is alive): every such
\* state is one in which the next utterance is processed.
C5_NextUtteranceProcessed ==
  (/\ main.pc = "idle"
   /\ audio_queue = << >>
   /\ \A w \in WIDs : workers[w].pc = "idle"
   /\ \A t \in TIDs : tracking_threads[t] = "dead"
   /\ listen_orphans = 0)
  => (current_state \in {"STANDBY", "ACTIVE", "WAITING"} /\ is_listening)

\* C6: every path of the state manager that calls stop_continuous_listening
\* is followed, whatever the outcome, by start_continuous_listening: once the
\* handler that stopped the listening has finished (handle_command has
\* returned, for the branches that start no worker; the worker has ended, for
\* the others) listening is on again.
C6_ListeningRestarted ==
  (\/ ev.op = "worker_exit"
   \/ /\ ev.op = "handle_command"
      /\ ev.stops > 0
      /\ route_of[ev.cmd, ev.st] \notin WorkerKinds)
  => is_listening

(***************************************************************************)
(* Exceptions and the ERROR state.                                         *)
(***************************************************************************)
\* C7: when a collaborator call raises inside a command handler (the four
\* workers and the synchronous "tell me when" branch) the exception does not
\* leave the handler, the state leaves PROCESSING for ACTIVE and listening is
\* restarted.
C7_HandlerExceptionContained ==
  (\/ ev.op = "worker_exit" /\ ev.ret \in {"caught", "raised"}
   \/ ev.op = "handle_command" /\ ev.stops > 0 /\ ev.ret = "raised")
  => (ev.ret # "raised" /\ current_state = "ACTIVE" /\ is_listening)

\* C8: an exception that no except clause of a worker handles moves the
\* machine to ERROR.
C8_UnhandledExceptionToError ==
  (ev.op = "worker_exit" /\ ev.ret = "raised") => current_state = "ERROR"

C10_SingleTrackingThread ==
  tracking_enabled => Cardinality({t \in TIDs : tracking_threads[t] = "loop"}) <= 1

(***************************************************************************)
(* Single calls of handle_command: junk, the wake-word gate, the routing.  *)
(***************************************************************************)
\* C11: for every string of the junk set (empty, shorter than 3 characters,
\* an exact junk token, a self-echo phrase such as "okay, standing by." or
\* "more questions?") handle_command returns False in every state and leaves
\* current_state and the conversation buffer as they are.
C11_JunkDropped ==
  [][(/\ main.pc = "idle"
      /\ audio_queue # << >>
      /\ Head(audio_queue) \in {"", " ", "a", "no", ".", "you", "No.", "now...",
                                "okay, standing by.", "more questions?", " Safe flying"}
      /\ audio_queue' # audio_queue)
     => (/\ ev' = Ev("handle_command", Head(audio_queue), current_state, "False", 0)
         /\ main'.pc = "idle"
         /\ UNCHANGED <<current_state, previous_state, conversation_context, workers>>)]_vars

\* the self-echo "okay, standing by." was dropped in WAITING, a turn in the buffer
C11_Witness ==
  /\ ev = Ev("handle_command", "okay, standing by.", "WAITING", "False", 0)
  /\ current_state = "WAITING"
  /\ conversation_context # << >>

\* C12: in STANDBY handle_command changes the state, to ACTIVE, only for a
\* wake phrase or a text with a reactivation phrase; every other text leaves
\* the state at STANDBY, starts no worker and does not touch the
\* conversation buffer.
C12_WakeWordGate ==
  [][(/\ current_state = "STANDBY"
      /\ main.pc = "idle"
      /\ audio_queue # << >>
      /\ audio_queue' # audio_queue)
     => (/\ current_state' \in {"STANDBY", "ACTIVE"}
         /\ current_state' = "ACTIVE" =>
              Head(audio_queue) \in {"sky tour", " Sky Tour ", "skytour", "question",
                                     "hello whisper", "where am i",
                                     "switch to grok, where am i",
                                     "where am i, take me to paris"}
         /\ main'.pc = "idle"
         /\ UNCHANGED <<workers, conversation_context>>)]_vars

\* a text that is neither junk nor a wake phrase was given in STANDBY
C12_Witness ==
  /\ ev = Ev("handle_command", "what time is it", "STANDBY", "False", 0)
  /\ current_state = "STANDBY"

(***************************************************************************)
(* change_state.                                                           *)
(***************************************************************************)
\* C13: change_state(s) called while current_state is s does nothing: no
\* callback is invoked, previous_state and state_change_time stay as they
\* are and no transition is logged.
C13_ChangeStateSameIsNoOp ==
  [][(ev'.op = "change_state" /\ ev'.cmd = current_state)
     => (/\ ev'.ret = [time_set |-> FALSE, logged |-> FALSE, invoked |-> 0]
         /\ UNCHANGED <<current_state, previous_state>>)]_vars

\* change_state(WAITING) was called in WAITING, reached from ACTIVE
C13_Witness ==
  /\ ev.op = "change_state"
  /\ ev.cmd = "WAITING"
  /\ ev.st = "WAITING"
  /\ current_state = "WAITING"
  /\ previous_state = Some("ACTIVE")

(***************************************************************************)
(* The end-to-end scenario.                                                *)
(***************************************************************************)
\* C14: from STANDBY "sky tour" leads to ACTIVE with listening started; then
\* "take me to the golden gate bridge" leads to PROCESSING and, when the
\* resolution and the speech succeed, to WAITING with last_destination
\* "Golden Gate Bridge"; then "no" leads to STANDBY with listening stopped.
C14_Scenario ==
  /\ ev = Ev("handle_command", "sky tour", "STANDBY", "True", 0)
     => (current_state = "ACTIVE" /\ is_listening)
  /\ ev = Ev("handle_command", "take me to the golden gate bridge", "ACTIVE", "True", 1)
     => current_state = "PROCESSING"
  /\ (ev.op = "worker_exit" /\ ev.cmd = "navigation" /\ current_state = "WAITING")
     => last_destination = Some("Golden Gate Bridge")
  /\ (ev.op = "handle_command" /\ ev.cmd = "no" /\ ev.st = "WAITING"
      /\ last_destination = Some("Golden Gate Bridge"))
     => (current_state = "STANDBY" /\ ~is_listening)

C16_TrackingEnabledHasThread ==
  tracking_enabled =>
    /\ tracking_thread \in TIDs
    /\ tracking_threads[tracking_thread] \in {"loop", "in_arrival", "arrived"}

\* tracking was started a second time while the thread of the first session
\* had not ended: the flag is set and the thread of the new session polls
C16_Witness ==
  /\ tracking_enabled
  /\ tracking_thread = 2
  /\ tracking_threads[2] = "loop"
  /\ tracking_threads[1] # "dead"

(***************************************************************************)
(* Speaking and listening.                                                 *)
(***************************************************************************)
\* C17: whenever the state manager calls AudioProcessor.speak, continuous
\* listening has been stopped first.  The formula states it of the calls
\* handle_command makes as the first statement of a routed branch (negative
\* response, deactivate, reset, "question", "tell me when" without a
\* destination) and of the call on_arrival makes: at such a call
\* is_listening is False.
C17_ListeningOffWhileSpeaking ==
  [][/\ main.pc = "idle" /\ main'.pc = "post"
        /\ main'.h \in {"negative", "deactivate", "reset", "question", "no_destination"}
          => ~is_listening
     /\ ev'.op = "on_arrival" /\ current_state \notin {"STANDBY", "ERROR"}
          => ~is_listening]_vars

(***************************************************************************)
(* The routing of a command in ACTIVE and WAITING.                         *)
(***************************************************************************)
\* C18: in ACTIVE or WAITING a command that passes the junk filter is handled
\* by the branch of the earliest predicate it satisfies, in the order
\* negative acknowledgement (in WAITING), deactivate, reset, switch provider,
\* "where am i", navigation phrase, tour phrase, "tell me when", general
\* question; one call of handle_command runs one branch and starts at most
\* one worker.
C18_FirstMatchWins ==
  [][/\ main.pc = "idle" /\ audio_queue # << >> /\ audio_queue' # audio_queue
        /\ current_state \in {"ACTIVE", "WAITING"} /\ ~is_junk(Head(audio_queue)) =>
          LET c == lower(strip(Head(audio_queue)))
              satisfied == <<current_state = "WAITING" /\ AnyStartsWith(c, negative_responses),
                             contains(c, "deactivate") \/ contains(c, "shut down"),
                             contains(c, "reset"),
                             contains(c, "switch to"),
                             contains(c, "where am i"),
                             _is_navigation_query(c),
                             _is_tour_request(c),
                             contains(c, "tell me when"),
                             TRUE>>
              branch == <<"negative", "deactivate", "reset", "switch", "where_am_i",
                          "navigation", "tour", "tell_me_when", "general">>
              earliest == Min({i \in 1..9 : satisfied[i]})
              ran == CASE main'.pc = "idle" -> "switch"
                       [] main'.h = "question" -> "general"
                       [] main'.h = "no_destination" -> "tell_me_when"
                       [] OTHER -> main'.h
          IN  ran = branch[earliest]
     /\ Cardinality({w \in WIDs : workers'[w] # workers[w]}) <= 1
     /\ main.pc = "post" /\ main'.pc = "idle" =>
          /\ ev'.op = "handle_command" /\ ev'.cmd = main.cmd /\ ev'.ret = "True"
          /\ (\E w \in WIDs : workers'[w] # workers[w]) =>
               /\ main.h \in WorkerKinds
               /\ \E w \in WIDs : workers'[w].kind = main.h /\ workers'[w].pc = "body"]_vars

\* a command with a navigation phrase and a tour phrase went to the
\* navigation branch, and one with a negative prefix and "deactivate" to the
\* deactivate branch in ACTIVE
C18_Witness ==
  /\ main.pc = "post"
  /\ \/ /\ main.cmd = "take me to the golden gate bridge and give me a tour"
        /\ main.h = "navigation"
     \/ /\ main.cmd = "stop and deactivate"
        /\ main.st = "ACTIVE"
        /\ main.h = "deactivate"

(***************************************************************************)
(* The AI manager and its providers.                                       *)
(***************************************************************************)
\* C19: generate_response calls the requested provider (the default one if
\* none or an unknown one is requested) first; it calls a second provider,
\* once, exactly when the first one failed and another provider is
\* configured, and then returns what the second one returned; otherwise it
\* returns what the first one returned; the result is a string.
C19_FallbackIffPrimaryFails ==
  ev.op = "generate_response" =>
    LET configured == {providers[i] : i \in 1..Len(providers)}
        primary == IF ev.provider \in configured THEN ev.provider ELSE default_provider
        failed == ev.outcome[primary] # "ok"
    IN  /\ Len(ev.calls) \in {1, 2}
        /\ ev.calls[1] = primary
        /\ Len(ev.calls) = 2 <=> failed /\ configured # {primary}
        /\ Len(ev.calls) = 2 => ev.calls[2] \in configured \ {primary}
        /\ ev.result = provider_generate_response(ev.calls[Len(ev.calls)],
                                                   ev.outcome[ev.calls[Len(ev.calls)]])
        /\ ev.result \in STRING

\* C20: whatever failure ends the exchange of a provider (missing key,
\* timeout, connection error, HTTP 401, HTTP 429, another HTTP error, an
\* unexpected response, another exception), the string the provider returns
\* starts with one of the error indicators of AIManager.generate_response.
C20_FailureStringsDetected ==
  ev.op = "provider_generate_response" /\ ev.outcome # "ok" =>
    \E i \in 1..Len(error_indicators) :
      /\ Len(ev.result) >= Len(error_indicators[i])
      /\ SubSeq(ev.result, 1, Len(error_indicators[i])) = error_indicators[i]

(***************************************************************************)
(* NAVIGATION and the tracking session.                                    *)
(***************************************************************************)
\* C21: the state is NAVIGATION only while a tracking session is armed: in
\* every reachable state with current_state = NAVIGATION the tracking
\* session of NavigationManager is enabled, for last_destination, so that an
\* arrival can still move the machine to ACTIVE.
C21_NavigationHasTracking ==
  current_state = "NAVIGATION" =>
    /\ tracking_enabled
    /\ destination_name = last_destination

(***************************************************************************)
(* The callbacks of change_state.                                          *)
(***************************************************************************)
\* C22: for every change_state call, each registered callback is invoked
\* exactly once for each transition applied, with the previous state, the new
\* state and the reason of that transition, and in the order the transitions
\* were applied, also when a callback calls change_state itself.
C22_CallbacksSeeEveryTransition ==
  ev.op = "change_state" =>
    \A i \in 1..Len(ev.callbacks) :
      LET seen == SelectSeq(ev.log, LAMBDA n : n.callback = i) IN
      /\ Len(seen) = Len(ev.applied)
      /\ \A k \in 1..Len(seen) :
           /\ seen[k].previous_state = ev.applied[k].previous_state
           /\ seen[k].new_state = ev.applied[k].new_state
           /\ seen[k].reason = ev.applied[k].reason

\* C23: when a callback raises, the exception does not leave change_state,
\* the new state stays applied and every registered callback is still
\* invoked.
C23_RaisingCallbackContained ==
  /\ ev.op = "change_state" /\ ev.st # ev.new_state
  /\ \E i \in 1..Len(ev.callbacks) : ev.callbacks[i].does = "raise"
  =>
  /\ ~ev.raised
  /\ ev.applied[1] = [previous_state |-> Some(ev.st), new_state |-> ev.new_state,
                      reason |-> ev.reason]
  /\ (\A i \in 1..Len(ev.callbacks) : ev.callbacks[i].does # "change_state")
       => current_state = ev.new_state /\ previous_state = Some(ev.st)
  /\ \A i \in 1..Len(ev.callbacks) :
       \E k \in 1..Len(ev.log) : ev.log[k].callback = i

\* the first of two callbacks raised and the second was invoked
C23_Witness ==
  /\ ev.op = "change_state"
  /\ ev.st = "STANDBY" /\ ev.new_state = "ACTIVE"
  /\ ev.callbacks = <<[does |-> "raise", new_state |-> ""],
                      [does |-> "return", new_state |-> ""]>>
  /\ Len(ev.log) = 2 /\ ev.log[2].callback = 2
  /\ current_state = "ACTIVE"

(***************************************************************************)
(* Commands that arrive while the machine is busy.                         *)
(***************************************************************************)
\* C24: a command that arrived while the machine was busy is discarded,
\* never executed after the busy period: a command that was in the queue
\* when a worker moved the machine out of PROCESSING is not routed to a
\* branch of handle_command by the next step of the event loop.
C24_NoBacklog ==
  [][~ /\ ev.op = "worker_exit"
       /\ previous_state = Some("PROCESSING")
       /\ current_state \in {"ACTIVE", "WAITING"}
       /\ main.pc = "idle"
       /\ audio_queue # << >>
       /\ audio_queue' = Tail(audio_queue)
       /\ \/ main'.pc \in {"post", "tmw1"} /\ main'.cmd = Head(audio_queue)
          \/ ev' = Ev("handle_command", Head(audio_queue), current_state, "True", 0)]_vars

C26_SignedHeadingDifference ==
  ev.op = "heading_difference" =>
    LET signed == ((ev.target_heading - ev.current_heading + 180) % 360) - 180 IN
    /\ ev.difference = signed
    /\ ev.fired <=> (signed > 15 \/ signed < -15)
    /\ (ev.current_heading = 350 /\ ev.target_heading = 10) => ev.difference = 20
    /\ (ev.current_heading = 10 /\ ev.target_heading = 350) => ev.difference = -20

(***************************************************************************)
(* Where the workers end.                                                  *)
(***************************************************************************)
\* C27: a worker (where-am-i, navigation, tour, general question) ends in
\* ACTIVE or WAITING, and in WAITING only if no exception was raised and the
\* response it spoke was not an error: neither a failure string of the AI
\* manager nor, for navigation, a response that starts with "I couldn't
\* find" or "I encountered".
C27_WaitingOnlyAfterAnswer ==
  \A w \in WIDs :
    workers[w].pc \in {"finally", "change"} =>
      /\ workers[w].next_state \in {"ACTIVE", "WAITING"}
      /\ workers[w].next_state = "WAITING" =>
           /\ workers[w].exc = "none"
           /\ workers[w].response # ""
           /\ IF workers[w].kind = "navigation"
              THEN ~AnyStartsWith(workers[w].response,
                                  <<"I couldn't find", "I encountered">>)
              ELSE ~AnyStartsWith(workers[w].response, error_indicators)

(***************************************************************************)
(* A collaborator is unavailable.                                          *)
(***************************************************************************)
\* C28: when the simulator returns no telemetry to a worker that needs it
\* (where-am-i, tour, navigation), or AIManager has no provider for a worker
\* that asks it (where-am-i, tour, general question), the worker ends in
\* ACTIVE, never in WAITING and never with an escaped exception, and what it
\* said is no assistant turn.
C28_CollaboratorUnavailable ==
  (/\ ev.op = "worker"
   /\ \/ ev.flight_data = "none" /\ ev.kind \in {"where_am_i", "tour", "navigation"}
      \/ ~ev.providers_loaded /\ ev.kind \in {"where_am_i", "tour", "general"})
  => /\ ev.result.next_state = "ACTIVE"
     /\ ev.result.exc # "escaped"
     /\ ~ev.result.assistant

(***************************************************************************)
(* Deactivation and the choice of the provider.                            *)
(***************************************************************************)
\* C29: when the "deactivate" / "shut down" branch of handle_command, entered
\* from ACTIVE or WAITING, returns, the state is STANDBY, the listening is
\* stopped, the conversation buffer is empty, navigation_active is False and
\* NavigationManager has no tracking session enabled.
C29_DeactivateToStandby ==
  [][(main.pc = "post" /\ main.h = "deactivate" /\ main'.pc = "idle")
     => /\ current_state' = "STANDBY"
        /\ ~is_listening'
        /\ conversation_context' = << >>
        /\ ~navigation_active'
        /\ ~tracking_enabled']_vars

\* C30: a "switch to grok" / "switch to openai" command handled in ACTIVE or
\* WAITING leaves current_state as it was and active_api is the named provider
\* when AIManager has loaded it; when the provider is not loaded or is no
\* known name, active_api is as it was, and set_active_api, where it is
\* called, returns False.
C30_SwitchProvider ==
  /\ ev.op = "switch" =>
       /\ current_state = ev.st
       /\ ev.ret = "True"
       /\ IF ev.provider \in ev.loaded
          THEN active_api = ev.provider /\ ev.set_active_api = <<TRUE>>
          ELSE /\ active_api = ev.active_api
               /\ ev.set_active_api = IF ev.provider = "" THEN None ELSE <<FALSE>>
  /\ ev.op = "set_active_api" =>
       LET named == CASE ev.api_provider \in {"grok", "Grok"} -> "grok"
                      [] ev.api_provider = "openai" -> "openai"
                      [] OTHER -> ""
       IN
       /\ current_state = ev.st
       /\ IF named \in ev.loaded
          THEN ev.ret /\ active_api = named
          ELSE ~ev.ret /\ active_api = ev.active_api

C30_Witness ==
  /\ ev.op = "switch"
  /\ ev.st = "WAITING"
  /\ ev.cmd = "switch to grok"
  /\ ev.active_api = "openai"
  /\ active_api = "grok"

(***************************************************************************)
(* The last destination and the messages given to the AI manager.          *)
(***************************************************************************)
\* C31: last_destination, last_dest_lat and last_dest_lon are either all
\* absent or all present; a step changes them only when it is the try body of
\* a navigation or tour worker that ends with its answer given; and every
\* navigation or tour worker whose answer is given leaves the three fields
\* present.
C31_LastDestinationFrame ==
  [][/\ (last_destination' = None) = (last_dest_lat' = None)
     /\ (last_destination' = None) = (last_dest_lon' = None)
     /\ <<last_destination, last_dest_lat, last_dest_lon>>'
          # <<last_destination, last_dest_lat, last_dest_lon>>
        => \E w \in WIDs : /\ workers[w].pc = "body"
                           /\ workers[w].kind \in {"navigation", "tour"}
                           /\ workers'[w].pc = "finally"
                           /\ workers'[w].next_state = "WAITING"
     /\ \A w \in WIDs :
          (/\ workers[w].pc = "body"
           /\ workers[w].kind \in {"navigation", "tour"}
           /\ workers'[w].pc = "finally"
           /\ workers'[w].next_state = "WAITING")
          => last_destination' # None]_vars

C33_OneListenWorker ==
  (IF listen_thread = "alive" THEN 1 ELSE 0) + listen_orphans <= 1

(***************************************************************************)
(* The caches of GeoUtils.                                                 *)
(***************************************************************************)
\* C34: after every geocode call that puts an entry into the dict geo_cache,
\* the dict holds at most max_cache_size entries.
C34_GeoCacheBounded ==
  (ev.op = "geocode" /\ ev.tier \in {"db", "geocoder"})
  => Len(ev.g.geo_cache) <= ev.g.max_cache_size

\* C35: the first reverse_geocode after the start of a process is a miss of
\* reverse_cache, whatever earlier processes stored, and the first geocode
\* after the start of a process, of a query that the table geocode_cache
\* holds from an earlier process, is answered from a cache.
C35_ReverseCacheCleared ==
  [][ev.op = "startup" =>
       /\ ev'.op = "reverse_geocode" => ev'.tier = "miss"
       /\ (/\ ev'.op = "geocode"
           /\ \E r \in ev.g.geocode_cache : r.query = strip(lower(ev'.arg[1])))
          => ev'.tier \in {"memory", "db"}]_vars

\* C39: two geocode calls in a row with the same query, after lowercasing and
\* trimming, return the same (latitude, longitude, display_name).
C39_GeocodeRepeatable ==
  [][(/\ ev.op = "geocode"
      /\ ev'.op = "geocode"
      /\ strip(lower(ev.arg[1])) = strip(lower(ev'.arg[1])))
     => ev'.result = ev.result]_vars

\* C36: the flag of a tracking session is cleared by that session's own
\* thread only: a tracking thread that ends its arrival tick and clears
\* tracking_enabled is the thread start_destination_tracking created last
C36_OwnSessionOnly ==
  [][\A t \in TIDs :
       (/\ tracking_threads[t] = "arrived"
        /\ tracking_threads'[t] = "loop"
        /\ tracking_enabled
        /\ ~tracking_enabled') => tracking_thread = t]_vars

\* C37: while is_listening is False (stop_continuous_listening returned and
\* start_continuous_listening was not called since) the command queue takes
\* nothing but what the main loop puts for a key or a button
C37_NoPushAfterStop ==
  [][(Len(audio_queue') > Len(audio_queue) /\ ~is_listening)
       => (main.pc = "idle" /\ audio_queue'[Len(audio_queue')] \in KeyCommands)]_vars

\* C38: current_state is always one of STANDBY, ACTIVE, PROCESSING, WAITING
\* and NAVIGATION: LISTENING, RESPONDING, TOURING and ERROR are never entered
C38_FiveStates ==
  current_state \in {"STANDBY", "ACTIVE", "PROCESSING", "WAITING", "NAVIGATION"}

C38_Witness ==
  /\ ev.op = "on_arrival"
  /\ current_state = "ACTIVE"
  /\ previous_state = Some("NAVIGATION")

\* C40: when toggle_simconnect returns True a server is connected afterwards
\* and _is_mock_mode tells its kind; a toggle within TOGGLE_COOLDOWN seconds
\* of the last one that passed returns False and leaves the server, the mode
\* and the toggle counter as they were
C40_ToggleConnected ==
  [][ev'.op = "toggle" =>
       /\ ev'.ret => /\ ev'.s._current_server # "None"
                     /\ ev'.s._is_mock_mode = (ev'.s._current_server = "mock")
       /\ ev'.now - ev.s._last_toggle_time < TOGGLE_COOLDOWN
            => /\ ~ev'.ret
               /\ ev'.s._current_server = ev.s._current_server
               /\ ev'.s._is_mock_mode = ev.s._is_mock_mode
               /\ ev'.s._toggle_attempts = ev.s._toggle_attempts]_vars


====
